---- MODULE Spec2Model ----
(***************************************************************************)
(* Verification model of the YouTube comment summarizer content scripts:   *)
(* the text sanitizer, the DOM comment locator with its container cache,   *)
(* the scrolling loader, the navigation monitor and the summarize          *)
(* handlers.  Each component has its own specification over its own group  *)
(* of variables; the other groups stay at their initial values.            *)
(***************************************************************************)
EXTENDS Integers, Sequences, FiniteSets, TLC

VARIABLES
  \* ---- text sanitizer -------------------------------------------------
  sanInput,     \* the argument: [isString, chars] (chars: UTF-16 code units)
  sanMaxLen,    \* the maxLength argument
  sanOut1,      \* sanitize(input, maxLength)
  sanOut2,      \* sanitize(sanOut1, maxLength)
  sanPhase,     \* "input" | "once" | "twice"
  \* ---- DOM comment locator ---------------------------------------------
  domNodes,       \* comment elements of the container: <<[text, sel]>>, in document order
  domBulk,        \* [sel, n]: n further elements with distinct texts under selector sel
  docHasComments, \* document.querySelector('#comments') is not null
  cacheNode,      \* domCache.commentsSection: "null" | "attached" | "detached"
  lastCacheTime,  \* domCache.lastCacheTime
  now,            \* Date.now()
  locPc,          \* "idle" | "expanding" (service findComments) | "cexpanding" (content.js)
  locCall,        \* the call that returned last, "none" before the first
  locResult,      \* what it returned
  locExpanded,    \* whether it ran expandReplyThreads
  locNoContainer, \* whether the document had no #comments all through it
  locFault,       \* [sel, at]: lookup strategy sel throws when its at-th element is
                  \* handled, at 0 for a throw of querySelectorAll; sel 0 for none
  locThrew,       \* whether the most recent call rejected
  cacheTd,        \* tdFlip when the cached node was queried
  locServed,      \* the latest getCachedCommentsSection: [node, age, torn]: what it
                  \* returned, how long before the entry was queried, and whether a
                  \* teardown came between the query and the call
  \* ---- incremental loader ----------------------------------------------
  ldImpl,     \* "service" (CommentService.loadCommentsWithScrolling) | "content" (content.js)
  ldPc,       \* "idle" | "locate0" | "settle" | "expand" | "paginate" | "relocate" | "done" | "failed"
  scrollY,    \* window.scrollY
  ldOrigin,   \* originalScrollY, -1 before it is recorded
  ldIter,     \* iterations of the scroll loop started
  ldCount,    \* comments.length
  ldBefore,   \* beforeScrollCount
  ldHist,     \* comments.length after the first locate and after each re-locate
  ldReturned, \* length of the returned list, -1 before the return
  \* ---- navigation monitor ----------------------------------------------
  navImpl,        \* "refactored" (content-refactored.js) | "content" (content.js)
  href,           \* window.location.href
  currentUrl,     \* NavigationHandler.currentUrl
  throttle,       \* pending navigationThrottle timers: ms left of each (refactored)
  checks,         \* pending setTimeout(handleNavigation, 100) timers: ms left (content.js)
  reinitPending,  \* pending setTimeout(initialize / initializeExtension, delay) timers
  initWaiting,    \* initialize calls awaiting the comments section
  histIntercepted,\* history.pushState / replaceState are the wrappers
  observerOn,     \* the MutationObserver is connected
  ctlInitialized, \* ContentScriptController.isInitialized
  navButtons,     \* the button container is in the document
  containers,     \* how many button containers the document holds
  boxPresent,     \* a summary or loading box is in the document
  tdFlip,         \* flips with every performCleanup run
  burstSignals,   \* detection signals since the throttle was last idle
  burstTeardowns, \* controller teardowns since then
  burstReinits,   \* re-initializes scheduled since then
  burstChanged,   \* whether the URL differed from the recorded one when the throttle fired
  navAct,         \* the last step: "none" | "signal" | "fire" | "time" | "init" | "skipped" | "page" |
                  \* "missed" (a history call nothing intercepted) | "rerender"
  lastFireTore,   \* whether the last URL comparison led to a teardown
  initAttempts,   \* NavigationHandler.initializationAttempts (content.js)
  initFails,      \* initializeExtension calls of content.js that ended without an
                  \* injection since the last injection
  quickDisabled,  \* the disabled property of #summarize-comments-btn in the document
  deepDisabled,   \* the disabled property of #deep-summarize-comments-btn in the document
  \* ---- summarize handlers ----------------------------------------------
  inv,            \* per invocation slot; pc "idle" | "collect" | "batch" | "settle" |
                  \* "expanded" | "request"
  \* The next five describe the step just taken when an invocation finished
  \* in it, and are cleared by every other handler step.
  uiAct,          \* "finish" | "none"
  uiKind,         \* kind of the finished invocation
  uiPath,         \* its exit path
  uiElapsed,      \* ms between its request and its finish
  uiSent,         \* length of the list it sent, -1 if it sent none
  boxInfo,        \* what the box in the document shows: [shows, text, count, url]
  qMsg,           \* the comments list of the summarize message of a quick summarize
  qShown,         \* the comment count its summary box shows, -1 before
  sectionGone,    \* the host page has taken #comments out of the document
  \* -- background script: rate limiter
  rlNow,          \* Date.now() of the background script
  rlRequests,     \* RATE_LIMIT.requests: key -> times stored (absent key: <<>>)
  rlAccepted,     \* per tab, the times of all its accepted requests
  rlLast,         \* the decision just taken: [tab, accepted], tab 0 for none
  \* -- one invocation of CommentService.expandReplyThreads
  xpButtons,      \* the controls of replyButtons, each "ok" | "hidden" | "disabled"
  xp,             \* [pc, at, now, wake, log]: position, index of the control at
                  \* hand, ms since the call, when the pending timer is due, the
                  \* clicks made as [idx, time, state]
  \* -- cleanup registry (content.js globals, UIService fields)
  clImpl,          \* "content" | "service"
  cleanupRegistry, \* the Set in insertion order; a callback is the number of its
                   \* first registration since the registry was last empty
  isCleaningUp,
  clCalls,         \* addCleanup calls since the registry was last empty
  clAct,           \* the step just taken: "none" | "add" | "cleanup"
  clFn,            \* the callback addCleanup was just called with, else 0
  clKinds,         \* what each registered callback does when called: "ok" |
                   \* "throws" | "reenters" (calls performCleanup); <<>>: all "ok"
  clRun,           \* performCleanup in steps: [pc, at, had, ran, all, nested, reran, runs]
  \* -- single calls observed
  injectFails,     \* whether injectButtons / injectButton throws inside its try on
                   \* this page (createElement, insertBefore, a detached section)
  histCall,        \* the latest call of a wrapped history function: [made, calls,
                   \* hooked, threw]: how often the original ran, whether
                   \* handleNavigation was scheduled, whether the call threw
  races,           \* the Promise.race calls of the summarize handlers, in the order
                   \* made: <<[state, slot, reply, timer]>>: "pending" | "fulfilled" |
                   \* "rejected", the invocation awaiting it, whether the reply and
                   \* the timer are still to come
  msgs             \* the runs of the summarize listener of the background script:
                   \* [pc, replies, path]: "free" | "storage" | "fetch" | "done",
                   \* the sendResponse calls made, the way it went

sanVars == <<sanInput, sanMaxLen, sanOut1, sanOut2, sanPhase>>
domVars == <<domNodes, domBulk, docHasComments>>
cacheVars == <<cacheNode, lastCacheTime, now, cacheTd>>
locOutVars == <<locPc, locCall, locResult, locExpanded, locNoContainer, locFault, locThrew,
               locServed>>
locVars == <<domVars, cacheVars, locOutVars>>

ldVars == <<ldImpl, ldPc, scrollY, ldOrigin, ldIter, ldCount, ldBefore, ldHist, ldReturned>>

navTimers == <<throttle, checks, reinitPending, initWaiting, initAttempts, initFails>>
navPage == <<histIntercepted, observerOn, ctlInitialized, navButtons, containers, boxPresent, tdFlip,
             quickDisabled, deepDisabled>>
navBurst == <<burstSignals, burstTeardowns, burstReinits, burstChanged>>
navVars == <<navImpl, href, currentUrl, navTimers, navPage, navBurst, navAct, lastFireTore>>

uiVars == <<inv, uiAct, uiKind, uiPath, uiElapsed, uiSent, boxInfo, qMsg, qShown,
           sectionGone>>

rlVars == <<rlNow, rlRequests, rlAccepted, rlLast>>
xpVars == <<xpButtons, xp>>
clVars == <<clImpl, cleanupRegistry, isCleaningUp, clCalls, clAct, clFn, clKinds, clRun>>
obsVars == <<histCall, injectFails, races, msgs>>
vars == <<sanVars, locVars, ldVars, navVars, uiVars, rlVars, xpVars, clVars, obsVars>>

\* What each component leaves alone.
sanOthers == <<locVars, ldVars, navVars, uiVars, rlVars, xpVars, clVars, obsVars>>
locOthers == <<sanVars, ldVars, navVars, uiVars, rlVars, xpVars, clVars, obsVars>>
ldOthers == <<sanVars, locVars, navVars, uiVars, rlVars, xpVars, clVars, obsVars>>
navOthers == <<sanVars, locVars, ldVars, uiVars, rlVars, xpVars, clVars, obsVars>>
rlOthers == <<sanVars, locVars, ldVars, navVars, uiVars, xpVars, clVars, obsVars>>
xpOthers == <<sanVars, locVars, ldVars, navVars, uiVars, rlVars, clVars, obsVars>>
\* What a summarize handler leaves alone: all but the buttons' disabled
\* properties, the box and its own position.
uiRest == <<sanVars, locVars, ldVars, navImpl, href, currentUrl, navTimers,
            histIntercepted, observerOn, ctlInitialized, navButtons, containers, tdFlip,
            navBurst, navAct, lastFireTore, qMsg, qShown, sectionGone, rlVars, xpVars, clVars,
            histCall, injectFails, msgs>>
uiOthers == <<uiRest, races>>

\* The sanitizer before any call.
SanIdle ==
  /\ sanInput = [isString |-> FALSE, chars |-> <<>>]
  /\ sanMaxLen = 0
  /\ sanOut1 = <<>>
  /\ sanOut2 = <<>>
  /\ sanPhase = "input"

\* performCleanup not running, nothing run so far.
ClRunIdle == [pc |-> "idle", at |-> 0, had |-> <<>>, ran |-> <<>>, all |-> <<>>,
              nested |-> 0, reran |-> FALSE, runs |-> 0]

\* No wrapped history function called yet.
NoHistCall == [made |-> FALSE, calls |-> 0, hooked |-> FALSE, threw |-> FALSE]

\* No handler has raced a request against a timer yet.
NoRaces == <<>>

\* Listener runs followed at a time.
MaxMessages == 2
Messages == 1..MaxMessages

\* No summarize message received yet.
FreeMessage == [pc |-> "free", replies |-> <<>>, path |-> "none"]
NoMessages == [m \in Messages |-> FreeMessage]

\* Nothing observed yet.
ObsIdle ==
  /\ histCall = NoHistCall
  /\ injectFails = FALSE
  /\ races = NoRaces
  /\ msgs = NoMessages

\* getCachedCommentsSection not called yet.
NotServed == [node |-> "null", age |-> 0, torn |-> FALSE]

\* No lookup strategy throws.
NoFault == [sel |-> 0, at |-> 0]

\* The locator before any call, on an empty document.
LocIdle ==
  /\ domNodes = <<>>
  /\ domBulk = [sel |-> 0, n |-> 0]
  /\ docHasComments = FALSE
  /\ cacheNode = "null"
  /\ lastCacheTime = 0
  /\ cacheTd = FALSE
  /\ now = 0
  /\ locPc = "idle"
  /\ locCall = "none"
  /\ locResult = <<>>
  /\ locExpanded = FALSE
  /\ locNoContainer = FALSE
  /\ locFault = NoFault
  /\ locThrew = FALSE
  /\ locServed = NotServed

\* The loader before any call.
LdIdle ==
  /\ ldImpl = "service"
  /\ ldPc = "idle"
  /\ scrollY = 0
  /\ ldOrigin = -1
  /\ ldIter = 0
  /\ ldCount = 0
  /\ ldBefore = 0
  /\ ldHist = <<>>
  /\ ldReturned = -1

\* The navigation monitor before the script has run.
NavIdle ==
  /\ navImpl = "refactored"
  /\ href = 1
  /\ currentUrl = 1
  /\ throttle = <<>>
  /\ checks = <<>>
  /\ reinitPending = 0
  /\ initWaiting = 0
  /\ histIntercepted = FALSE
  /\ observerOn = FALSE
  /\ ctlInitialized = FALSE
  /\ navButtons = FALSE
  /\ containers = 0
  /\ boxPresent = FALSE
  /\ tdFlip = FALSE
  /\ burstSignals = 0
  /\ burstTeardowns = 0
  /\ burstReinits = 0
  /\ burstChanged = FALSE
  /\ navAct = "none"
  /\ lastFireTore = FALSE
  /\ initAttempts = 0
  /\ initFails = 0
  /\ quickDisabled = FALSE
  /\ deepDisabled = FALSE

\* Handler invocations that may be in flight at once.
MaxInvocations == 2
Slots == 1..MaxInvocations

\* No summarize handler has run: every invocation slot is free.
IdleInvocation ==
  [pc |-> "idle", kind |-> "quick", elapsed |-> 0, n |-> 0, kept |-> 0, msgLen |-> -1,
   url |-> 0]
NoBox == [shows |-> "none", text |-> "none", count |-> 0, url |-> 0]

UiIdle ==
  /\ inv = [s \in Slots |-> IdleInvocation]
  /\ uiAct = "none"
  /\ uiKind = "quick"
  /\ uiPath = "none"
  /\ uiElapsed = 0
  /\ uiSent = -1
  /\ boxInfo = NoBox
  /\ qMsg = <<>>
  /\ qShown = -1
  /\ sectionGone = FALSE

\* The background script has been loaded and has seen no request; no
\* expandReplyThreads is under way.
\* sender.tab.id of the two tabs followed.
TabIds == {1, 2}
NoDecision == [tab |-> 0, accepted |-> FALSE]

\* const sanitizedTabId = String(tabId).substring(0, 100)
OneKeyForAll(tabId) == "unknown"

RateLimitKey(tabId) == ToString(tabId)

RateKeys == {RateLimitKey(t) : t \in TabIds}

XpIdle == [pc |-> "idle", at |-> 0, now |-> 0, wake |-> 0, log |-> <<>>]

BackgroundIdle ==
  /\ rlNow = 0
  /\ rlRequests = [k \in RateKeys |-> <<>>]
  /\ rlAccepted = [t \in TabIds |-> <<>>]
  /\ rlLast = NoDecision
  /\ xpButtons = <<>>
  /\ xp = XpIdle
  /\ clImpl = "content"
  /\ cleanupRegistry = <<>>
  /\ isCleaningUp = FALSE
  /\ clCalls = 0
  /\ clAct = "none"
  /\ clFn = 0
  /\ clKinds = <<>>
  /\ clRun = ClRunIdle

RlIdle == BackgroundIdle /\ ObsIdle

Min(a, b) == IF a <= b THEN a ELSE b
Max(a, b) == IF a >= b THEN a ELSE b

(***************************************************************************)
(* Text sanitizer: TextSanitizer.sanitize (utils.js) and sanitizeText      *)
(* (content.js).  A string is a sequence of code units.                    *)
(***************************************************************************)

\* Longest input string and largest explicit maxLength that are enumerated.
MaxStrLen == 4
MaxLimit == 3

\* sanitize(input, maxLength = 2000); sanitizeText: .substring(0, 2000)
DefaultMaxLength == 2000

\* Code units drawn for inputs: NUL, TAB, SPACE, 'a', DEL.
Chars == {0, 9, 32, 97, 127}

\* The character class [\x00-\x08\x0B\x0C\x0E-\x1F\x7F].
IsControl(c) == c \in (0..8) \cup {11, 12} \cup (14..31) \cup {127}

\* String.prototype.trim's white space and line terminators.
IsWhiteSpace(c) ==
  c \in {9, 10, 11, 12, 13, 32, 160, 5760, 8232, 8233, 8239, 8287, 12288, 65279}
        \cup (8192..8202)

\* .replace(/[\x00-\x08\x0B\x0C\x0E-\x1F\x7F]/g, '').replace(/\u0000/g, '')
StripControl(s) ==
  SelectSeq(SelectSeq(s, LAMBDA c : ~IsControl(c)), LAMBDA c : c # 0)

RECURSIVE TrimStart(_)
TrimStart(s) ==
  IF s # <<>> /\ IsWhiteSpace(Head(s)) THEN TrimStart(Tail(s)) ELSE s

RECURSIVE TrimEnd(_)
TrimEnd(s) ==
  IF s # <<>> /\ IsWhiteSpace(s[Len(s)])
  THEN TrimEnd(SubSeq(s, 1, Len(s) - 1))
  ELSE s

\* .trim()
Trim(s) == TrimEnd(TrimStart(s))

\* .substring(0, n) for n >= 0
Substring0(s, n) == SubSeq(s, 1, Min(n, Len(s)))

\* TextSanitizer.sanitize(input, maxLength) on a string argument's code units
\* (variant without the final substring, used to probe C5)
SanitizeNoTruncate(s, maxLength) == Trim(StripControl(s))
SanitizeChars(s, maxLength) == Substring0(Trim(StripControl(s)), maxLength)

\* TextSanitizer.sanitize: a non-string argument gives ''
sanitize(input, maxLength) ==
  IF ~input.isString THEN <<>> ELSE SanitizeChars(input.chars, maxLength)

\* content.js sanitizeText(text): the same chain with substring(0, 2000)
sanitizeText(text) == sanitize(text, DefaultMaxLength)

Str(s) == [isString |-> TRUE, chars |-> s]
\* A non-string argument (a number, null, undefined, an object).
NonString == [isString |-> FALSE, chars |-> <<>>]

StringsUpTo(n) == UNION {[1..k -> Chars] : k \in 0..n}

SanInputs == {Str(s) : s \in StringsUpTo(MaxStrLen)} \cup {NonString}
SanLimits == (0..MaxLimit) \cup {DefaultMaxLength}

SanInit ==
  /\ sanInput \in SanInputs
  /\ sanMaxLen \in SanLimits
  /\ sanOut1 = <<>>
  /\ sanOut2 = <<>>
  /\ sanPhase = "input"
  /\ LocIdle
  /\ LdIdle
  /\ NavIdle
  /\ UiIdle
  /\ RlIdle

\* The first call: sanitize(x, maxLen) (sanitizeText(x) when maxLen is the default).
SanitizeOnce ==
  /\ UNCHANGED sanOthers
  /\ sanPhase = "input"
  /\ sanOut1' = IF sanMaxLen = DefaultMaxLength
                THEN sanitizeText(sanInput)
                ELSE sanitize(sanInput, sanMaxLen)
  /\ sanPhase' = "once"
  /\ UNCHANGED <<sanInput, sanMaxLen, sanOut2>>

\* The second call, on the first call's result.
SanitizeTwice ==
  /\ UNCHANGED sanOthers
  /\ sanPhase = "once"
  /\ sanOut2' = IF sanMaxLen = DefaultMaxLength
                THEN sanitizeText(Str(sanOut1))
                ELSE sanitize(Str(sanOut1), sanMaxLen)
  /\ sanPhase' = "twice"
  /\ UNCHANGED <<sanInput, sanMaxLen, sanOut1>>

SanNext == SanitizeOnce \/ SanitizeTwice

SpecSanitize == SanInit /\ [][SanNext]_vars

\* C4: sanitize is idempotent: sanitize(sanitize(x, maxLen), maxLen) equals
\* sanitize(x, maxLen) for every string x and every maxLen.
C4_SanitizeIdempotent == sanPhase = "twice" => sanOut2 = sanOut1

\* C5: sanitize returns the empty string for a non-string input, and for every
\* input a string of at most maxLen code units that holds none of the
\* characters 0x00-0x08, 0x0B, 0x0C, 0x0E-0x1F, 0x7F.
C5_SanitizeBounded ==
  sanPhase # "input" =>
    /\ sanOut1 \in Seq(Nat)
    /\ Len(sanOut1) <= sanMaxLen
    /\ \A i \in 1..Len(sanOut1) : ~IsControl(sanOut1[i])
    /\ (~sanInput.isString => sanOut1 = <<>>)

\* C5's case: a string of exactly maxLen + 1 code units, a control character
\* among them, has been sanitized and cut to maxLen.
C5_Witness ==
  /\ sanPhase = "once"
  /\ sanInput.isString
  /\ Len(sanInput.chars) = sanMaxLen + 1
  /\ \E i \in 1..Len(sanInput.chars) : IsControl(sanInput.chars[i])
  /\ Len(sanOut1) = sanMaxLen
  /\ sanMaxLen > 0

(***************************************************************************)
(* DOM comment locator: CommentService.getCachedCommentsSection,           *)
(* findCommentsWithoutExpanding and findComments, and content.js           *)
(* findComments.  An element is its textContent; selector 1 is the primary *)
(* '#content-text', the others are the fallbacks in priority order.        *)
(***************************************************************************)

\* Lookup strategies and elements of a drawn document.
NumSelectors == 2
MaxNodes == 2
\* Latest clock value (ms) the cache is exercised at.
MaxTime == 10000

\* CONSTANTS.VALIDATION and CONSTANTS.PERFORMANCE.CACHE_TIMEOUT (utils.js)
MAX_COMMENTS == 200
MIN_COMMENT_LENGTH == 5
QUICK_CHECK_LIMIT == 50
CACHE_TIMEOUT == 5000

\* textContent values: "aaaaa", " aaaaa" (sanitizes to the former), "aa".
TxtA == <<97, 97, 97, 97, 97>>
TxtASpace == <<32, 97, 97, 97, 97, 97>>
TxtShort == <<97, 97>>
Pool == {TxtA, TxtASpace, TxtShort}
\* The i-th of the further elements: six letters and a distinct last code unit.
BulkText(i) == <<99, 99, 99, 99, 99, 99, 1000 + i>>

Selectors == 1..NumSelectors
DomNodeLists == UNION {[1..k -> [text : Pool, sel : Selectors]] : k \in 0..MaxNodes}
BulkChoices ==
  {[sel |-> 0, n |-> 0]} \cup [sel : Selectors, n : {MAX_COMMENTS + 1}]

TextsOf(nodes) == [i \in 1..Len(nodes) |-> nodes[i].text]

\* node.querySelectorAll(selector): the matching elements' textContent, in
\* document order.
Elements(selector) ==
  TextsOf(SelectSeq(domNodes, LAMBDA nd : nd.sel = selector))
    \o (IF domBulk.sel = selector THEN [i \in 1..domBulk.n |-> BulkText(i)] ELSE <<>>)

\* document.querySelectorAll(selector)
DocElements(selector) == IF docHasComments THEN Elements(selector) ELSE <<>>

InSeq(x, sq) == \E i \in 1..Len(sq) : sq[i] = x
NoDuplicates(sq) == Cardinality({sq[i] : i \in 1..Len(sq)}) = Len(sq)

\* text.length >= MIN_COMMENT_LENGTH (CommentService); text.length > 5 (content.js)
LongEnough(text, strict) ==
  IF strict THEN Len(text) > 5 ELSE Len(text) >= MIN_COMMENT_LENGTH

\* One iteration of the loop over a selector's elements: skip an element
\* without text, sanitize, reject a short or seen text, else push; after the
\* break at the cap no further iteration runs.
CollectStepNoDedup(comments, element, strict, cap) ==
  IF Len(comments) >= cap \/ element = <<>> THEN comments
  ELSE LET text == sanitize(Str(element), DefaultMaxLength) IN
       IF LongEnough(text, strict) THEN Append(comments, text) ELSE comments

CollectStep(comments, element, strict, cap) ==
  IF Len(comments) >= cap \/ element = <<>> THEN comments
  ELSE LET text == sanitize(Str(element), DefaultMaxLength) IN
       IF LongEnough(text, strict) /\ ~InSeq(text, comments)
       THEN Append(comments, text)
       ELSE comments

\* The iterations lo..hi in order, starting from comments; none once the cap
\* is reached (the break).
RECURSIVE CollectRange(_, _, _, _, _, _)
CollectRange(elems, lo, hi, comments, strict, cap) ==
  IF Len(comments) >= cap \/ lo > hi THEN comments
  ELSE IF lo = hi THEN CollectStep(comments, elems[lo], strict, cap)
  ELSE LET mid == (lo + hi) \div 2
           left == CollectRange(elems, lo, mid, comments, strict, cap)
       IN  CollectRange(elems, mid + 1, hi, left, strict, cap)

\* for (const element of elements) { ... } on empty comments
Collect(elems, strict, cap) == CollectRange(elems, 1, Len(elems), <<>>, strict, cap)

\* getCachedCommentsSection: re-query when nothing is cached or the entry is
\* older than the timeout, else serve the cached node.
CacheRefresh == cacheNode = "null" \/ (now - lastCacheTime) > CACHE_TIMEOUT
CachedNode ==
  IF CacheRefresh THEN (IF docHasComments THEN "attached" ELSE "null") ELSE cacheNode
CachedTime == IF CacheRefresh THEN now ELSE lastCacheTime
CachedTd == IF CacheRefresh THEN tdFlip ELSE cacheTd
\* What the call returns, with the age of the entry it returns.
Served ==
  [node |-> CachedNode, age |-> now - CachedTime,
   torn |-> CachedNode # "null" /\ CachedTd # tdFlip]

\* Whether the lookup with selector throws while it runs on elems with
\* comments collected so far: in querySelectorAll, or at an element the loop
\* reaches before its break at the cap.
Throws(selector, elems, comments, strict, cap) ==
  /\ locFault.sel = selector
  /\ \/ locFault.at = 0
     \/ /\ locFault.at <= Len(elems)
        /\ Len(CollectRange(elems, 1, locFault.at - 1, comments, strict, cap)) < cap

\* What the lookup has pushed when it throws.
PushedBeforeThrow(elems, comments, strict, cap) ==
  IF locFault.at = 0 THEN comments
  ELSE CollectRange(elems, 1, locFault.at - 1, comments, strict, cap)

\* findCommentsWithoutExpanding, given the node the cache served: no try
\* around the lookup
QuickThrows(node) ==
  node # "null" /\ Throws(1, Elements(1), <<>>, FALSE, QUICK_CHECK_LIMIT)
QuickLocate(node) ==
  IF node = "null" THEN <<>> ELSE Collect(Elements(1), FALSE, QUICK_CHECK_LIMIT)

\* findComments, the fallback loop over commentSelectors.slice(1): one
\* comments array and one seenTexts for all selectors, a try around each
\* selector's lookup, the break on a non-empty array inside the try.
RECURSIVE ServiceFallbackFrom(_, _)
ServiceFallbackFrom(selector, comments) ==
  IF selector > NumSelectors THEN comments
  ELSE LET elems == Elements(selector) IN
       IF Throws(selector, elems, comments, FALSE, MAX_COMMENTS)
       THEN ServiceFallbackFrom(selector + 1,
                                PushedBeforeThrow(elems, comments, FALSE, MAX_COMMENTS))
       ELSE LET got == CollectRange(elems, 1, Len(elems), comments, FALSE, MAX_COMMENTS) IN
            IF Len(got) > 0 THEN got ELSE ServiceFallbackFrom(selector + 1, got)
ServiceFallback(selector) == ServiceFallbackFrom(selector, <<>>)

\* findComments after the expansion, given the node the cache served: the
\* primary lookup runs outside any try
ServiceThrows(node) ==
  node # "null" /\ Throws(1, Elements(1), <<>>, FALSE, MAX_COMMENTS)
ServiceLocate(node) ==
  IF node = "null" THEN <<>>
  ELSE IF Len(Elements(1)) > 0
       THEN Collect(Elements(1), FALSE, MAX_COMMENTS)
       ELSE ServiceFallback(2)

\* content.js findComments, the loop over COMMENT_SELECTORS: one comments
\* array and one seenTexts for all selectors, a try around each selector's
\* lookup, the break on a non-empty array inside the try.
RECURSIVE ContentLocateFrom(_, _)
ContentLocateFrom(selector, comments) ==
  IF selector > NumSelectors THEN comments
  ELSE LET elems == DocElements(selector) IN
       IF Throws(selector, elems, comments, TRUE, MAX_COMMENTS)
       THEN ContentLocateFrom(selector + 1,
                              PushedBeforeThrow(elems, comments, TRUE, MAX_COMMENTS))
       ELSE LET got == CollectRange(elems, 1, Len(elems), comments, TRUE, MAX_COMMENTS) IN
            IF Len(got) > 0 THEN got ELSE ContentLocateFrom(selector + 1, got)
ContentLocate(selector) == ContentLocateFrom(selector, <<>>)

\* A new CommentService on a drawn document.
LocStart ==
  /\ domNodes \in DomNodeLists
  /\ domBulk \in BulkChoices
  /\ cacheNode = "null"
  /\ lastCacheTime = 0
  /\ cacheTd = FALSE
  /\ now = 0
  /\ locPc = "idle"
  /\ locCall = "none"
  /\ locResult = <<>>
  /\ locExpanded = FALSE
  /\ locNoContainer = FALSE
  /\ locFault = NoFault
  /\ locThrew = FALSE
  /\ locServed = NotServed
  /\ SanIdle
  /\ LdIdle
  /\ NavIdle
  /\ UiIdle
  /\ RlIdle

\* Documents with a comments container, large ones among them.
LocInit == LocStart /\ docHasComments = TRUE

\* Small documents, with and without a comments container.
LocEnvInit == LocStart /\ domBulk.sel = 0 /\ docHasComments \in BOOLEAN

\* CommentService.findCommentsWithoutExpanding()
FindCommentsWithoutExpanding ==
  /\ locPc = "idle"
  /\ cacheNode' = CachedNode
  /\ lastCacheTime' = CachedTime
  /\ cacheTd' = CachedTd
  /\ locServed' = Served
  /\ locThrew' = QuickThrows(CachedNode)
  /\ locResult' = IF QuickThrows(CachedNode) THEN <<>> ELSE QuickLocate(CachedNode)
  /\ locCall' = "findCommentsWithoutExpanding"
  /\ locExpanded' = FALSE
  /\ locNoContainer' = ~docHasComments
  /\ UNCHANGED <<domVars, now, locPc, locFault, locOthers>>

\* CommentService.findComments() up to its await of expandReplyThreads; with
\* no initial comment there is no expansion and the call runs to its return.
\* A throw of findCommentsWithoutExpanding or of the primary lookup rejects
\* the call.
FindCommentsBegin ==
  /\ locPc = "idle"
  /\ cacheNode' = CachedNode
  /\ lastCacheTime' = CachedTime
  /\ cacheTd' = CachedTd
  /\ locServed' = Served
  /\ IF QuickThrows(CachedNode)
     THEN /\ locPc' = "idle"
          /\ locExpanded' = FALSE
          /\ locCall' = "findComments"
          /\ locResult' = <<>>
          /\ locThrew' = TRUE
     ELSE IF Len(QuickLocate(CachedNode)) > 0
     THEN /\ locPc' = "expanding"
          /\ locExpanded' = TRUE
          /\ locCall' = "none"
          /\ locResult' = <<>>
          /\ locThrew' = FALSE
     ELSE /\ locPc' = "idle"
          /\ locExpanded' = FALSE
          /\ locCall' = "findComments"
          /\ locThrew' = ServiceThrows(CachedNode)
          /\ locResult' = IF ServiceThrows(CachedNode) THEN <<>>
                          ELSE ServiceLocate(CachedNode)
  /\ locNoContainer' = ~docHasComments
  /\ UNCHANGED <<domVars, now, locFault, locOthers>>

\* CommentService.findComments() after the expansion has settled
FindCommentsFinish ==
  /\ locPc = "expanding"
  /\ cacheNode' = CachedNode
  /\ lastCacheTime' = CachedTime
  /\ cacheTd' = CachedTd
  /\ locServed' = Served
  /\ locThrew' = ServiceThrows(CachedNode)
  /\ locResult' = IF ServiceThrows(CachedNode) THEN <<>> ELSE ServiceLocate(CachedNode)
  /\ locCall' = "findComments"
  /\ locPc' = "idle"
  /\ locNoContainer' = (locNoContainer /\ ~docHasComments)
  /\ UNCHANGED <<domVars, now, locExpanded, locFault, locOthers>>

\* content.js findComments() up to its await of expandReplyThreads
ContentFindCommentsBegin ==
  /\ locPc = "idle"
  /\ locPc' = "cexpanding"
  /\ locExpanded' = TRUE
  /\ locCall' = "none"
  /\ locResult' = <<>>
  /\ locThrew' = FALSE
  /\ locNoContainer' = ~docHasComments
  /\ UNCHANGED <<domVars, cacheVars, locFault, locServed, locOthers>>

\* content.js findComments() after the expansion
ContentFindCommentsFinish ==
  /\ locPc = "cexpanding"
  /\ locResult' = ContentLocate(1)
  /\ locCall' = "contentFindComments"
  /\ locPc' = "idle"
  /\ locNoContainer' = (locNoContainer /\ ~docHasComments)
  /\ UNCHANGED <<domVars, cacheVars, locExpanded, locFault, locThrew, locServed, locOthers>>

\* The host page removes the comments container from the document.
RemoveContainer ==
  /\ docHasComments
  /\ docHasComments' = FALSE
  /\ cacheNode' = IF cacheNode = "attached" THEN "detached" ELSE cacheNode
  /\ UNCHANGED <<domNodes, domBulk, lastCacheTime, now, cacheTd, locOutVars, locOthers>>

\* The host page renders a new comments container.
AddContainer ==
  /\ ~docHasComments
  /\ docHasComments' = TRUE
  /\ UNCHANGED <<domNodes, domBulk, cacheVars, locOutVars, locOthers>>

\* Time passes.
Tick ==
  /\ \E d \in {CACHE_TIMEOUT \div 2, CACHE_TIMEOUT + 1} :
       /\ now + d <= MaxTime
       /\ now' = now + d
  /\ UNCHANGED <<domVars, cacheNode, lastCacheTime, cacheTd, locOutVars, locOthers>>

LocCalls ==
  \/ FindCommentsWithoutExpanding
  \/ FindCommentsBegin
  \/ FindCommentsFinish
  \/ ContentFindCommentsBegin
  \/ ContentFindCommentsFinish

LocEnvNext == LocCalls \/ RemoveContainer \/ AddContainer \/ Tick

\* The locator on a fixed document (documents with more than MAX_COMMENTS
\* distinct comments among them).
SpecLocator == LocInit /\ [][LocCalls]_vars
\* The locator while the host page changes the document and time passes.
SpecLocatorEnv == LocEnvInit /\ [][LocEnvNext]_vars

\* C6: the sequence findComments returns (CommentService.findComments and
\* content.js findComments) holds no two equal texts and at most maxComments
\* (200) items.
C6_NoDuplicatesAtMostMax ==
  locCall \in {"findComments", "contentFindComments"} =>
    /\ NoDuplicates(locResult)
    /\ Len(locResult) <= MAX_COMMENTS

\* C6's case: the document held more than 200 acceptable elements, two of them
\* with the same sanitized text, and findComments returned 200 texts.
C6_Witness ==
  /\ locCall \in {"findComments", "contentFindComments"}
  /\ Len(locResult) = MAX_COMMENTS
  /\ domBulk.n > MAX_COMMENTS
  /\ \E i, j \in 1..Len(domNodes) :
       /\ i # j
       /\ domNodes[i].sel = domBulk.sel
       /\ domNodes[j].sel = domBulk.sel
       /\ domNodes[i].text = TxtA
       /\ domNodes[j].text = TxtASpace

\* C7: with no comments container in the document, findCommentsWithoutExpanding
\* and findComments of CommentService return an empty sequence and expand no
\* replies.
C7_EmptyWithoutContainer ==
  (locCall \in {"findCommentsWithoutExpanding", "findComments"} /\ locNoContainer) =>
    (locResult = <<>> /\ ~locExpanded)

(***************************************************************************)
(* Incremental loader: CommentService.loadCommentsWithScrolling and        *)
(* content.js loadAllCommentsWithScrolling.  One action per stretch of     *)
(* code between two awaits; what a locate returns is its length.           *)
(***************************************************************************)

\* maxScrollAttempts and the early-stop cap of each revision
ServiceMaxScrollAttempts == 3
ServiceCap == 150
ContentMaxScrollAttempts == 5
ContentCap == 200

MaxScrollAttempts(impl) ==
  IF impl = "service" THEN ServiceMaxScrollAttempts ELSE ContentMaxScrollAttempts
LoaderCap(impl) == IF impl = "service" THEN ServiceCap ELSE ContentCap

\* Lengths a locate is drawn from: findComments returns at most MAX_COMMENTS.
CountSamples == {0, 1, 2, 3, ServiceCap - 1, ServiceCap, ServiceCap + 1, MAX_COMMENTS}
\* Scroll offsets the page is at when the loader is called, and the absolute
\* bottom edge of the comments container.
ScrollOrigins == {0, 400}
ContainerBottoms == {1000, 1500}

\* top: commentsBottom + 300 (CommentService) / + 500 (content.js)
ScrollTarget(impl, commentsBottom) ==
  commentsBottom + (IF impl = "service" THEN 300 ELSE 500)

LdInit ==
  /\ ldImpl \in {"service", "content"}
  /\ ldPc = "idle"
  /\ scrollY \in ScrollOrigins
  /\ ldOrigin = -1
  /\ ldIter = 0
  /\ ldCount = 0
  /\ ldBefore = 0
  /\ ldHist = <<>>
  /\ ldReturned = -1
  /\ SanIdle
  /\ LocIdle
  /\ NavIdle
  /\ UiIdle
  /\ RlIdle

\* The entry: without a comments container the call throws before anything
\* else; else the origin is recorded and the first findComments is awaited.
LoaderStart ==
  /\ ldPc = "idle"
  /\ \E found \in BOOLEAN :
       IF found
       THEN /\ ldOrigin' = scrollY
            /\ ldPc' = "locate0"
       ELSE /\ ldPc' = "failed"
            /\ UNCHANGED ldOrigin
  /\ UNCHANGED <<ldImpl, scrollY, ldIter, ldCount, ldBefore, ldHist, ldReturned, ldOthers>>

\* The head of a loop iteration: remember the count, scroll below the bottom
\* of the comments, await the settle delay.
BeginIteration(count) ==
  /\ ldBefore' = count
  /\ ldIter' = ldIter + 1
  /\ \E commentsBottom \in ContainerBottoms :
       scrollY' = ScrollTarget(ldImpl, commentsBottom)
  /\ ldPc' = "settle"
  /\ UNCHANGED ldReturned

\* After the loop: restore the scroll position, return comments.slice(0, cap).
Finalize(count) ==
  /\ scrollY' = ldOrigin
  /\ ldReturned' = Min(count, LoaderCap(ldImpl))
  /\ ldPc' = "done"
  /\ UNCHANGED <<ldBefore, ldIter>>

\* The first findComments resolved with count comments: the loop is entered
\* (maxScrollAttempts is positive).
FirstLocateDone ==
  /\ ldPc = "locate0"
  /\ \E count \in CountSamples :
       /\ ldCount' = count
       /\ ldHist' = <<count>>
       /\ BeginIteration(count)
  /\ UNCHANGED <<ldImpl, ldOrigin, ldOthers>>

\* The settle delay elapsed: the reply expansion is awaited; CommentService
\* skips it when findCommentsWithoutExpanding finds no comment and goes on to
\* the "load more" control.
SettleDone ==
  /\ ldPc = "settle"
  /\ \E expands, loadMoreVisible \in BOOLEAN :
       /\ ldImpl = "content" => expands
       /\ ldPc' = IF expands THEN "expand"
                  ELSE IF loadMoreVisible THEN "paginate" ELSE "relocate"
  /\ UNCHANGED <<ldImpl, scrollY, ldOrigin, ldIter, ldCount, ldBefore, ldHist, ldReturned, ldOthers>>

\* The expansion is over: a visible "load more" control is clicked and the
\* delay and a second expansion are awaited; else findComments is awaited.
ExpandDone ==
  /\ ldPc = "expand"
  /\ \E loadMoreVisible \in BOOLEAN :
       ldPc' = IF loadMoreVisible THEN "paginate" ELSE "relocate"
  /\ UNCHANGED <<ldImpl, scrollY, ldOrigin, ldIter, ldCount, ldBefore, ldHist, ldReturned, ldOthers>>

\* The pagination wait and the second expansion are over.
PaginateDone ==
  /\ ldPc = "paginate"
  /\ ldPc' = "relocate"
  /\ UNCHANGED <<ldImpl, scrollY, ldOrigin, ldIter, ldCount, ldBefore, ldHist, ldReturned, ldOthers>>

\* Whether the loop goes on after a re-locate (variant without the cap test).
LoopGoesOnNoCap(impl, count, before, iter) ==
  /\ ~(count <= before)
  /\ iter < MaxScrollAttempts(impl)

\* (variant without the growth test)
LoopGoesOnNoGrowthTest(impl, count, before, iter) ==
  /\ ~(count >= LoaderCap(impl))
  /\ iter < MaxScrollAttempts(impl)

\* Whether the loop goes on after a re-locate: not on no growth, not at the
\* cap, not when the attempts are used up.
LoopGoesOn(impl, count, before, iter) ==
  /\ ~(count <= before)
  /\ ~(count >= LoaderCap(impl))
  /\ iter < MaxScrollAttempts(impl)

\* The re-locate of an iteration resolved with count comments.
RelocateDone ==
  /\ ldPc = "relocate"
  /\ \E count \in CountSamples :
       /\ ldCount' = count
       /\ ldHist' = Append(ldHist, count)
       /\ IF LoopGoesOn(ldImpl, count, ldBefore, ldIter)
          THEN BeginIteration(count)
          ELSE Finalize(count)
  /\ UNCHANGED <<ldImpl, ldOrigin, ldOthers>>

\* An awaited step rejects or a call in the stretch after it throws: the catch
\* logs and rethrows 'Failed to load comments with scrolling: ...'.
LoaderThrow ==
  /\ ldPc \in {"locate0", "settle", "expand", "paginate", "relocate"}
  /\ ldPc' = "failed"
  /\ UNCHANGED <<ldImpl, scrollY, ldOrigin, ldIter, ldCount, ldBefore, ldHist, ldReturned, ldOthers>>

LdNext ==
  \/ LoaderStart
  \/ FirstLocateDone
  \/ SettleDone
  \/ ExpandDone
  \/ PaginateDone
  \/ RelocateDone
  \/ LoaderThrow

SpecLoader == LdInit /\ [][LdNext]_vars

StrictlyGrowing(hist) == \A k \in 2..Len(hist) : hist[k] > hist[k - 1]

\* C3: once the scroll origin is recorded, the window scroll position is back
\* at that origin when the loader returns or throws.
C3_ScrollRestored ==
  (ldPc \in {"done", "failed"} /\ ldOrigin # -1) => scrollY = ldOrigin

\* C26: in the deep loader an iteration runs scroll, settle wait, reply
\* expansion, pagination and re-locate in this order, and the loop is left or
\* re-entered only by the step that ends the re-locate; a re-located count not
\* greater than the count before the iteration ends the loop in that very
\* step, every earlier iteration of the call grew, and once the loader has
\* returned no step of it runs again (the window stays at the origin it was
\* scrolled back to).
C26_StepOrder ==
  /\ (ldPc' # ldPc /\ ldPc' = "expand") => ldPc = "settle"
  /\ (ldPc' # ldPc /\ ldPc' = "paginate") => ldPc \in {"settle", "expand"}
  /\ (ldPc' # ldPc /\ ldPc' = "relocate") => ldPc \in {"settle", "expand", "paginate"}
  /\ (ldPc' # ldPc /\ ldPc' = "done") => ldPc = "relocate"
  /\ ldIter' # ldIter =>
       /\ ldPc \in {"locate0", "relocate"}
       /\ ldPc' = "settle"
       /\ ldPc = "relocate" => ldCount' > ldBefore
       /\ scrollY' \in {ScrollTarget(ldImpl, b) : b \in ContainerBottoms}
  /\ scrollY' # scrollY => (ldIter' # ldIter \/ (ldPc = "relocate" /\ ldPc' = "done"))
  /\ (ldPc = "relocate" /\ ldPc' # "failed" /\ ldCount' <= ldBefore) =>
       (ldPc' = "done" /\ ldIter' = ldIter /\ scrollY' = ldOrigin)
  /\ ldPc = "done" => UNCHANGED ldVars
C26_ConvergenceAfterIteration ==
  /\ [](ldPc \in {"settle", "expand", "paginate", "relocate"} => StrictlyGrowing(ldHist))
  /\ [](ldPc = "done" => StrictlyGrowing(SubSeq(ldHist, 1, Len(ldHist) - 1)))
  /\ [][C26_StepOrder]_vars

C26_Witness ==
  /\ ldPc = "done"
  /\ Len(ldHist) = 3
  /\ ldHist[2] > ldHist[1]
  /\ ldHist[3] <= ldHist[2]
  /\ ldHist[3] < LoaderCap(ldImpl)
  /\ ldIter = 2
  /\ scrollY = ldOrigin

\* C8: CommentService.loadCommentsWithScrolling runs at most maxScrollAttempts
\* (3) iterations and returns at most 150 comments; while every re-locate
\* reports more than the one before, it leaves the loop at the first iteration
\* whose count reaches 150 or, if none does, when the 3 attempts are used up.
C8_LoaderBounded ==
  ldImpl = "service" =>
    /\ ldIter <= ServiceMaxScrollAttempts
    /\ ldReturned <= ServiceCap
    /\ (ldPc = "done" =>
          /\ Len(ldHist) = ldIter + 1
          /\ ldReturned = Min(ldHist[Len(ldHist)], ServiceCap))
    /\ \A k \in 2..Len(ldHist) :
         (k < Len(ldHist) \/ ldPc # "done") => ldHist[k] < ServiceCap
    /\ (ldPc = "done" /\ StrictlyGrowing(ldHist)) =>
         (ldHist[Len(ldHist)] >= ServiceCap \/ ldIter = ServiceMaxScrollAttempts)
    /\ (ldPc \in {"locate0", "settle", "expand", "paginate", "relocate"} => ENABLED LdNext)

\* C8's case: the count grew at every re-locate and reached the cap in the
\* second iteration, where the loop was left with an attempt to spare.
C8_Witness ==
  /\ ldImpl = "service"
  /\ ldPc = "done"
  /\ ldIter = 2
  /\ StrictlyGrowing(ldHist)
  /\ ldHist[3] > ServiceCap
  /\ ldReturned = ServiceCap

\* ---------------------------------------------------------------------------
\* Navigation monitor: content-refactored.js NavigationHandler with
\* ContentScriptController.handleNavigation, and content.js NavigationHandler.
\* Time passes in steps of half a throttle window; a timer fires once its
\* remaining time is 0, and time does not pass over a due timer.
\* ---------------------------------------------------------------------------
NumUrls == 2
MaxBurst == 3
MaxChecks == 2
MaxPendingInits == 2

THROTTLE_MS == 100
CHECK_DELAY == 100
MaxButtonInjectionAttempts == 5

Urls == 1..NumUrls
NavImpls == {"refactored", "content"}

\* handleNavigation of content-refactored.js: the pending throttle timer is
\* cleared and a new one of 100 ms is set.
ThrottleKeepPending(timers) == Append(timers, THROTTLE_MS)

ThrottleReset(timers) == <<THROTTLE_MS>>

\* window.location.href !== this.currentUrl
UrlAlwaysChanged(location, recorded) == TRUE

UrlChanged(location, recorded) == location # recorded

Decrement(timers, d) == [i \in 1..Len(timers) |-> timers[i] - d]
NoneDue(timers) == \A i \in 1..Len(timers) : timers[i] > 0

\* The script has loaded on a watch page: the handlers are installed and the
\* first initialization has found the comments section or given up.
NavInit ==
  /\ navImpl \in NavImpls
  /\ href = 1
  /\ currentUrl = 1
  /\ throttle = <<>>
  /\ checks = <<>>
  /\ reinitPending = 0
  /\ initWaiting = 0
  /\ initAttempts = 0
  /\ initFails = 0
  /\ histIntercepted = TRUE
  /\ observerOn = TRUE
  /\ navButtons \in BOOLEAN
  /\ containers = IF navButtons THEN 1 ELSE 0
  /\ ctlInitialized = (navImpl = "refactored" /\ navButtons)
  /\ boxPresent = FALSE
  /\ tdFlip = FALSE
  /\ burstSignals = 0
  /\ burstTeardowns = 0
  /\ burstReinits = 0
  /\ burstChanged = FALSE
  /\ navAct = "none"
  /\ lastFireTore = FALSE
  /\ quickDisabled = FALSE
  /\ deepDisabled = FALSE
  /\ SanIdle
  /\ LocIdle
  /\ LdIdle
  /\ UiIdle
  /\ RlIdle

\* ContentScriptController.handleNavigation: the box and the buttons are
\* removed, the flag is cleared and initialize is scheduled.
ControllerHandleNavigation ==
  /\ boxPresent' = FALSE
  /\ navButtons' = FALSE
  /\ containers' = 0
  /\ tdFlip' = ~tdFlip
  /\ ctlInitialized' = FALSE
  /\ reinitPending' = reinitPending + 1
  /\ burstTeardowns' = burstTeardowns + 1
  /\ burstReinits' = burstReinits + 1
  /\ lastFireTore' = TRUE
  /\ quickDisabled' = FALSE
  /\ deepDisabled' = FALSE
  /\ UNCHANGED <<histIntercepted, observerOn>>

\* The teardown of content.js handleNavigation: removeSummaryBox,
\* performCleanup (whose registry restores the history functions and
\* disconnects the observer) and the scheduled initializeExtension.
ContentTeardown ==
  /\ boxPresent' = FALSE
  /\ navButtons' = FALSE
  /\ containers' = 0
  /\ tdFlip' = ~tdFlip
  /\ histIntercepted' = FALSE
  /\ observerOn' = FALSE
  /\ reinitPending' = reinitPending + 1
  /\ lastFireTore' = TRUE
  /\ quickDisabled' = FALSE
  /\ deepDisabled' = FALSE
  /\ UNCHANGED <<ctlInitialized, burstTeardowns, burstReinits>>

NoTeardown ==
  /\ lastFireTore' = FALSE
  /\ UNCHANGED <<navPage, reinitPending, burstTeardowns, burstReinits>>

\* handleNavigation of content.js.
ContentHandleNavigation(location) ==
  IF UrlChanged(location, currentUrl)
  THEN currentUrl' = location /\ ContentTeardown
  ELSE currentUrl' = currentUrl /\ NoTeardown

\* The synchronous part of handleNavigation of content-refactored.js, called
\* by the history wrappers, the popstate listener and the observer: the
\* throttle timer is set anew.  A signal that finds no timer pending opens a
\* new burst.
DetectionSignal(location) ==
  /\ navImpl = "refactored"
  /\ reinitPending < MaxPendingInits
  /\ throttle = <<>> \/ burstSignals < MaxBurst
  /\ href' = location
  /\ throttle' = ThrottleReset(throttle)
  /\ IF throttle = <<>>
     THEN /\ burstSignals' = 1
          /\ burstTeardowns' = 0
          /\ burstReinits' = 0
          /\ burstChanged' = FALSE
     ELSE /\ burstSignals' = burstSignals + 1
          /\ UNCHANGED <<burstTeardowns, burstReinits, burstChanged>>
  /\ navAct' = "signal"
  /\ UNCHANGED <<navImpl, currentUrl, checks, reinitPending, initWaiting, initAttempts, initFails,
                 navPage, lastFireTore, navOthers>>

\* A history call under content.js: the wrapper, while installed, schedules
\* handleNavigation 100 ms later; the restored original only moves the URL.
ContentHistoryCall(location) ==
  /\ navImpl = "content"
  /\ reinitPending < MaxPendingInits
  /\ href' = location
  /\ IF histIntercepted
     THEN /\ Len(checks) < MaxChecks
          /\ checks' = Append(checks, CHECK_DELAY)
          /\ navAct' = "signal"
     ELSE /\ checks' = checks
          /\ navAct' = "missed"
  /\ UNCHANGED <<navImpl, currentUrl, throttle, reinitPending, initWaiting, initAttempts, initFails,
                 navPage, navBurst, lastFireTore, navOthers>>

\* initializeExtension of content.js NavigationHandler up to its await.
InitializeExtensionCall ==
  /\ initAttempts' = Min(initAttempts + 1, MaxButtonInjectionAttempts + 1)
  /\ initFails' = initFails
  /\ initWaiting' = IF initAttempts + 1 > MaxButtonInjectionAttempts
                    THEN initWaiting ELSE initWaiting + 1

\* history.pushState(.., url)
PushState ==
  \E u \in Urls : DetectionSignal(u) \/ ContentHistoryCall(u)

\* history.replaceState(.., url)
ReplaceState ==
  \E u \in Urls : DetectionSignal(u) \/ ContentHistoryCall(u)

\* The popstate event after a history traversal; content.js compares at once.
PopState ==
  \E u \in Urls :
    \/ DetectionSignal(u)
    \/ /\ navImpl = "content"
       /\ reinitPending < MaxPendingInits
       /\ href' = u
       /\ ContentHandleNavigation(u)
       /\ navAct' = "fire"
       /\ UNCHANGED <<navImpl, throttle, checks, initWaiting, initAttempts, initFails,
                      burstSignals, burstChanged, navOthers>>

\* The MutationObserver callback: content-refactored.js takes an added node
\* holding #comments as a signal; content.js calls initializeExtension when the
\* section is there without the button.
ObserverCallback ==
  \/ DetectionSignal(href)
  \/ /\ navImpl = "content"
     /\ observerOn
     /\ ~navButtons
     /\ initWaiting < MaxPendingInits
     /\ InitializeExtensionCall
     /\ navAct' = "init"
     /\ UNCHANGED <<navImpl, href, currentUrl, throttle, checks, reinitPending,
                    navPage, navBurst, lastFireTore, navOthers>>

\* Half a throttle window passes.
Advance ==
  /\ throttle # <<>> \/ checks # <<>>
  /\ NoneDue(throttle)
  /\ NoneDue(checks)
  /\ throttle' = Decrement(throttle, THROTTLE_MS \div 2)
  /\ checks' = Decrement(checks, CHECK_DELAY \div 2)
  /\ navAct' = "time"
  /\ UNCHANGED <<navImpl, href, currentUrl, reinitPending, initWaiting, initAttempts, initFails,
                 navPage, navBurst, lastFireTore, navOthers>>

\* The throttle timer of content-refactored.js fires.
ThrottleFire ==
  /\ navImpl = "refactored"
  /\ throttle # <<>>
  /\ Head(throttle) = 0
  /\ throttle' = Tail(throttle)
  /\ burstChanged' = (href # currentUrl)
  /\ IF UrlChanged(href, currentUrl)
     THEN currentUrl' = href /\ ControllerHandleNavigation
     ELSE currentUrl' = currentUrl /\ NoTeardown
  /\ navAct' = "fire"
  /\ UNCHANGED <<navImpl, href, checks, initWaiting, initAttempts, initFails, burstSignals, navOthers>>

\* A timer set by a content.js history wrapper fires.
CheckFire ==
  /\ navImpl = "content"
  /\ checks # <<>>
  /\ Head(checks) = 0
  /\ checks' = Tail(checks)
  /\ ContentHandleNavigation(href)
  /\ navAct' = "fire"
  /\ UNCHANGED <<navImpl, href, throttle, initWaiting, initAttempts, initFails,
                 burstSignals, burstChanged, navOthers>>

\* A scheduled re-initialization starts, its delay over: initialize returns at
\* once when the controller is initialized, else waits for the section.
ReinitFire ==
  /\ reinitPending > 0
  /\ initWaiting < MaxPendingInits
  /\ reinitPending' = reinitPending - 1
  /\ IF navImpl = "refactored"
     THEN /\ initWaiting' = IF ctlInitialized THEN initWaiting ELSE initWaiting + 1
          /\ initAttempts' = initAttempts
          /\ initFails' = initFails
     ELSE InitializeExtensionCall
  /\ navAct' = "init"
  /\ UNCHANGED <<navImpl, href, currentUrl, throttle, checks,
                 navPage, navBurst, lastFireTore, navOthers>>

\* if (document.getElementById('summarize-comments-btn')) return;
NeverPresent(n) == FALSE

AlreadyPresent(n) == n > 0

\* The wait for the comments section ends: with the section the buttons are
\* injected unless present (a throw inside injectButtons is caught and logged
\* there, and the caller goes on), without it the rejection is swallowed.
InitResolve ==
  /\ initWaiting > 0
  /\ initWaiting' = initWaiting - 1
  /\ \E found \in BOOLEAN :
       IF found
       THEN /\ containers' = IF AlreadyPresent(containers) \/ injectFails
                           THEN containers ELSE containers + 1
            /\ navButtons' = (containers' > 0)
            /\ ctlInitialized' = (navImpl = "refactored")
            /\ initAttempts' = 0
            /\ initFails' = 0
            /\ navAct' = IF AlreadyPresent(containers) THEN "skipped" ELSE "init"
       ELSE /\ initFails' = IF navImpl = "content"
                            THEN Min(initFails + 1, MaxButtonInjectionAttempts + 1)
                            ELSE initFails
            /\ navAct' = "init"
            /\ UNCHANGED <<navButtons, containers, ctlInitialized, initAttempts>>
  /\ UNCHANGED <<navImpl, href, currentUrl, throttle, checks, reinitPending,
                 histIntercepted, observerOn, boxPresent, tdFlip,
                 quickDisabled, deepDisabled, navBurst, lastFireTore, navOthers>>

\* A summarize session renders its loading or summary box.
ShowBox ==
  /\ navButtons
  /\ ~boxPresent
  /\ boxPresent' = TRUE
  /\ navAct' = "page"
  /\ UNCHANGED <<navImpl, href, currentUrl, navTimers,
                 histIntercepted, observerOn, ctlInitialized, navButtons, containers, tdFlip,
                 quickDisabled, deepDisabled, navBurst, lastFireTore, navOthers>>

NavNext ==
  \/ PushState
  \/ ReplaceState
  \/ PopState
  \/ ObserverCallback
  \/ Advance
  \/ ThrottleFire
  \/ CheckFire
  \/ ReinitFire
  \/ InitResolve
  \/ ShowBox

SpecNav == NavInit /\ [][NavNext]_vars

\* C38: the document never holds more than one button container, whatever
\* the order of initialize calls, teardowns and waits that resolve; the
\* buttons are present exactly if a container is.
C38_OneContainer ==
  /\ containers <= 1
  /\ navButtons = (containers > 0)

\* A wait has just resolved on a page that had the buttons already, and the
\* injection went no further than its check.
C38_Witness ==
  /\ navAct = "skipped"
  /\ containers = 1

\* C34: under content.js the attempt counter is 0 right after an injection,
\* never more than maxButtonInjectionAttempts (5) waits are begun without an
\* injection in between, and initializeExtension gives up (the counter is
\* beyond 5) only when 5 calls in a row have ended without an injection:
\* calls that are still waiting do not count.
C34_CapCountsFailures ==
  (navImpl = "content" /\ initAttempts > MaxButtonInjectionAttempts) =>
    initFails >= MaxButtonInjectionAttempts

\* The counter after an injection, alone.
C34_ResetOnSuccess ==
  [][(navImpl = "content" /\ initWaiting' < initWaiting /\ initFails' = 0) =>
       (initAttempts' = 0 /\ navButtons')]_vars

\* C9: under content-refactored.js a burst of detection signals, each arriving
\* before the throttle timer of the one before it has fired, leads to no
\* teardown while the timer is pending, and once the timer has fired on a
\* changed URL the teardown has run exactly once and exactly one
\* re-initialization has been scheduled.
C9_BurstOneTeardown ==
  navImpl = "refactored" =>
    /\ burstTeardowns <= 1
    /\ burstReinits = burstTeardowns
    /\ throttle # <<>> => burstTeardowns = 0
    /\ (throttle = <<>> /\ burstSignals >= 1 /\ burstChanged) =>
         (burstTeardowns = 1 /\ burstReinits = 1)
    /\ (throttle = <<>> /\ burstSignals >= 1 /\ ~burstChanged) => burstTeardowns = 0

C9_Witness ==
  /\ navImpl = "refactored"
  /\ navAct = "fire"
  /\ burstSignals = MaxBurst
  /\ burstChanged
  /\ burstTeardowns = 1
  /\ burstReinits = 1
  /\ throttle = <<>>

\* C10: a step in which a detection signal arrives or a URL comparison runs
\* while the location equals the recorded URL runs no cleanup, removes neither
\* the box nor the buttons, keeps the initialized flag and schedules no
\* re-initialization.
C10_NoTeardownWhenUrlSame ==
  [][ (navAct' \in {"signal", "fire"} /\ href' = currentUrl) =>
        /\ tdFlip' = tdFlip
        /\ boxPresent' = boxPresent
        /\ navButtons' = navButtons
        /\ ctlInitialized' = ctlInitialized
        /\ reinitPending' = reinitPending
        /\ currentUrl' = currentUrl ]_vars

C10_Witness ==
  /\ navAct = "fire"
  /\ ~lastFireTore
  /\ href = currentUrl
  /\ boxPresent
  /\ navButtons
  /\ reinitPending = 0

\* C21: under content.js the interception of the history functions and the
\* mutation observer are installed at all times, after a teardown too, so
\* that no pushState or replaceState goes by without the wrapper scheduling
\* handleNavigation.
C21_InterceptionStaysInstalled ==
  navImpl = "content" => (histIntercepted /\ observerOn /\ navAct # "missed")

\* ---------------------------------------------------------------------------
\* Summarize handlers: summarizeCommentsHandler and
\* deepSummarizeCommentsHandler of content.js, handleSummarizeClick and
\* handleDeepSummarizeClick of content-refactored.js.  An invocation runs from
\* the click to its first await (collecting the comments), from there to its
\* second await (the race of the reply and the timeout) and from there through
\* catch and finally.
\* ---------------------------------------------------------------------------
ExitPaths == {"success", "zero comments", "error response", "timeout", "thrown"}

InFlight(s) == inv[s].pc # "idle"
NoneInFlight == \A s \in Slots : ~InFlight(s)
FirstFree(s) == ~InFlight(s) /\ \A t \in Slots : t < s => InFlight(t)

\* The disabled property of a button once a handler of the given kind has
\* run its first statements: summarizeCommentsHandler of content.js sets it on
\* its own button only, the three other handlers on both.
DisabledAtStart(impl, kind, button, was) ==
  IF impl = "content" /\ kind = "quick" /\ button = "deep" THEN was ELSE TRUE

\* The disabled property of a button once the finally block of a handler of
\* the given kind has run.
DisabledKept(impl, kind, button, was) == was

DisabledAtFinish(impl, kind, button, was) ==
  IF impl = "content" /\ kind = "quick" /\ button = "deep" THEN was ELSE FALSE

\* The buttons have been injected on a watch page.
UiInit ==
  /\ navImpl \in NavImpls
  /\ href = 1
  /\ currentUrl = 1
  /\ throttle = <<>>
  /\ checks = <<>>
  /\ reinitPending = 0
  /\ initWaiting = 0
  /\ initAttempts = 0
  /\ initFails = 0
  /\ histIntercepted = TRUE
  /\ observerOn = TRUE
  /\ navButtons = TRUE
  /\ containers = 1
  /\ ctlInitialized = (navImpl = "refactored")
  /\ boxPresent = FALSE
  /\ tdFlip = FALSE
  /\ burstSignals = 0
  /\ burstTeardowns = 0
  /\ burstReinits = 0
  /\ burstChanged = FALSE
  /\ navAct = "none"
  /\ lastFireTore = FALSE
  /\ quickDisabled = FALSE
  /\ deepDisabled = FALSE
  /\ UiIdle
  /\ RlIdle
  /\ SanIdle
  /\ LocIdle
  /\ LdIdle

\* The timeout raced against the request.
ContentQuickTimeout == 60000
ContentDeepTimeout == 90000
REQUEST_TIMEOUT == 30000
DEEP_ANALYSIS_TIMEOUT == 90000

DeepTimeoutForAll(impl, kind) == ContentDeepTimeout

RequestTimeoutMs(impl, kind) ==
  IF impl = "content"
  THEN IF kind = "quick" THEN ContentQuickTimeout ELSE ContentDeepTimeout
  ELSE IF kind = "quick" THEN REQUEST_TIMEOUT ELSE DEEP_ANALYSIS_TIMEOUT

\* Time passes in steps of this many ms.
ClockSteps == {REQUEST_TIMEOUT}

\* Numbers of comments the collection may come back with.
QuickSlice == 100
ContentDeepSlice == 200
BackgroundMaxComments == 100
ControllerMaxComments == 200
CollectedCounts(impl, kind) ==
  IF kind = "quick" THEN {0, 1, QuickSlice}
  ELSE {0, QuickSlice, QuickSlice + 1,
        LoaderCap(IF impl = "content" THEN "content" ELSE "service")}

\* What validateAndProcessComments may keep of a list of n comments; content.js
\* has no such step.
KeptCounts(impl, n) == IF impl = "content" THEN {n} ELSE {0, n}

\* Length of the comments list of the summarize message.  content.js slices
\* the collected list; content-refactored.js sends what
\* validateAndProcessComments kept of it.
MessageLength(impl, kind, n, kept) ==
  IF impl = "content"
  THEN Min(n, IF kind = "quick" THEN QuickSlice ELSE ContentDeepSlice)
  ELSE kept

\* The count handed to showLoading and showSummary, as the box displays it.
DisplayedCount(impl, n, kept) ==
  Min(IF impl = "content" THEN n ELSE kept, MAX_COMMENTS)

\* Whether the collected list goes on to the request: content.js throws on
\* an empty list, validateAndProcessComments on an empty or over-long list and
\* on a list it keeps nothing of.
NeverEmpty(impl, n, kept) == TRUE

CollectionUsable(impl, n, kept) ==
  IF impl = "content" THEN n > 0
  ELSE n >= 1 /\ n <= MAX_COMMENTS /\ kept > 0

\* validateComments of the background script on the length of the list.
CommentCountAccepted(impl, len) ==
  len >= 1 /\ len <= (IF impl = "content" THEN BackgroundMaxComments
                      ELSE ControllerMaxComments)

\* A handler step in which no invocation finishes.
NotAFinish ==
  /\ uiAct' = "none"
  /\ uiKind' = "quick"
  /\ uiPath' = "none"
  /\ uiElapsed' = 0
  /\ uiSent' = -1

\* A handler step in which no invocation finishes and which is noted.
Noted(act, kind) ==
  /\ uiAct' = act
  /\ uiKind' = kind
  /\ uiPath' = "none"
  /\ uiElapsed' = 0
  /\ uiSent' = -1

\* Where a handler is at its first await: findComments of content.js has
\* entered expandReplyThreads, findComments of CommentService awaits
\* findCommentsWithoutExpanding.
PcAfterClick(impl) == IF impl = "content" THEN "batch" ELSE "collect"

\* A click (or Enter / Space) on an enabled button starts its handler, which
\* runs to its first await, inside the comment collection.
Click(s, kind) ==
  /\ navButtons
  /\ FirstFree(s)
  /\ IF kind = "quick" THEN ~quickDisabled ELSE ~deepDisabled
  /\ quickDisabled' = DisabledAtStart(navImpl, kind, "quick", quickDisabled)
  /\ deepDisabled' = DisabledAtStart(navImpl, kind, "deep", deepDisabled)
  /\ boxPresent' = (boxPresent \/ (kind = "deep" /\ ~sectionGone))
  /\ boxInfo' = IF kind = "deep" /\ ~boxPresent /\ ~sectionGone
                THEN [shows |-> "temp", text |-> "none", count |-> 0, url |-> href]
                ELSE boxInfo
  /\ inv' = [inv EXCEPT ![s] = [IdleInvocation EXCEPT !.pc = PcAfterClick(navImpl),
                                                      !.kind = kind, !.url = href]]
  /\ NotAFinish
  /\ UNCHANGED uiOthers

ClickQuick == \E s \in Slots : Click(s, "quick")

ClickDeep == \E s \in Slots : Click(s, "deep")

\* catch and finally: the boxes are removed, the summary box or the error
\* box with the message of the error is inserted into #comments, if the
\* document has it, and the buttons found in the document are enabled.
FinishAs(s, path, act) ==
  /\ quickDisabled' = DisabledAtFinish(navImpl, inv[s].kind, "quick", quickDisabled)
  /\ deepDisabled' = DisabledAtFinish(navImpl, inv[s].kind, "deep", deepDisabled)
  /\ boxPresent' = ~sectionGone
  /\ boxInfo' = IF sectionGone THEN NoBox
                ELSE IF path = "success"
                THEN [shows |-> "summary", text |-> "summary",
                      count |-> DisplayedCount(navImpl, inv[s].n, inv[s].kept),
                      url |-> inv[s].url]
                ELSE [shows |-> "error", text |-> path, count |-> 0, url |-> inv[s].url]
  /\ inv' = [inv EXCEPT ![s] = IdleInvocation]
  /\ uiAct' = act
  /\ uiKind' = inv[s].kind
  /\ uiPath' = path
  /\ uiElapsed' = inv[s].elapsed
  /\ uiSent' = inv[s].msgLen

Finish(s, path) == FinishAs(s, path, "finish")

\* findComments of CommentService: findCommentsWithoutExpanding has resolved;
\* expandReplyThreads is entered if it found comments.
ExpandBegin(s) ==
  /\ inv[s].pc = "collect"
  /\ \E initialComments \in BOOLEAN :
       inv' = [inv EXCEPT ![s].pc = IF initialComments THEN "batch" ELSE "expanded"]
  /\ NotAFinish
  /\ UNCHANGED <<boxInfo, quickDisabled, deepDisabled, boxPresent, uiOthers>>

\* Whether the promise of expandReplyThreads resolves: its body is one try
\* block whose catch logs.
ExpandRejectsOnFailure(failed) == ~failed

ExpandResolves(failed) == TRUE

\* expandReplyThreads goes through its click batches: the reply controls
\* found visible are clicked, with timer awaits in between.  A failure of
\* the lookup or of a click leaves the try block before the settle delay.
ExpandBatches(s) ==
  /\ inv[s].pc = "batch"
  /\ \E controls, failed \in BOOLEAN :
       IF ExpandResolves(failed)
       THEN /\ inv' = [inv EXCEPT ![s].pc = IF failed THEN "expanded" ELSE "settle"]
            /\ Noted(IF failed THEN "expandFailed"
                     ELSE IF controls THEN "clicked" ELSE "none",
                     inv[s].kind)
            /\ UNCHANGED <<boxInfo, quickDisabled, deepDisabled, boxPresent>>
       ELSE FinishAs(s, "thrown", "expandFailed")
  /\ UNCHANGED uiOthers

\* The settle delay of expandReplyThreads is over; the caller goes on.
ExpandSettle(s) ==
  /\ inv[s].pc = "settle"
  /\ inv' = [inv EXCEPT ![s].pc = "expanded"]
  /\ NotAFinish
  /\ UNCHANGED <<boxInfo, quickDisabled, deepDisabled, boxPresent, uiOthers>>

\* The comment collection settles.  A usable list is shown in the loading box
\* and sent; an empty or unusable one, or a throw of the collection, takes
\* the handler through catch and finally.
CollectSettles(s) ==
  /\ inv[s].pc = "expanded"
  /\ \/ Finish(s, "thrown")
     \/ \E n \in CollectedCounts(navImpl, inv[s].kind) :
        \E kept \in KeptCounts(navImpl, n) :
          IF CollectionUsable(navImpl, n, kept)
          THEN /\ inv' = [inv EXCEPT ![s].pc = "request", ![s].n = n, ![s].kept = kept,
                                     ![s].msgLen = MessageLength(navImpl, inv[s].kind, n, kept)]
               /\ boxPresent' = ~sectionGone
               /\ boxInfo' = IF sectionGone THEN NoBox
                             ELSE [shows |-> "loading", text |-> "none",
                                   count |-> DisplayedCount(navImpl, n, kept),
                                   url |-> inv[s].url]
               /\ NotAFinish
               /\ UNCHANGED <<quickDisabled, deepDisabled>>
          ELSE Finish(s, IF n = 0 THEN "zero comments" ELSE "thrown")

CollectDone(s) ==
  /\ CollectSettles(s)
  /\ UNCHANGED uiOthers

\* The reply of the background script wins the race; it carries a summary
\* only if validateComments accepted the list.  A reply without a summary is
\* an error under content.js and rendered as it is under
\* content-refactored.js; reading a property of an undefined reply throws.
Replies == {"summary", "error", "no summary", "undefined"}

ReplyPath(impl, reply) ==
  CASE reply = "summary" -> "success"
    [] reply = "error" -> "error response"
    [] reply = "no summary" -> IF impl = "content" THEN "thrown" ELSE "success"
    [] OTHER -> "thrown"

Respond(s) ==
  /\ inv[s].pc = "request"
  /\ \E reply \in Replies :
       /\ reply = "summary" => CommentCountAccepted(navImpl, inv[s].msgLen)
       /\ Finish(s, ReplyPath(navImpl, reply))
  /\ UNCHANGED uiOthers

\* The timeout promise wins the race: its timer is due.
RequestTimeout(s) ==
  /\ inv[s].pc = "request"
  /\ inv[s].elapsed = RequestTimeoutMs(navImpl, inv[s].kind)
  /\ Finish(s, "timeout")
  /\ UNCHANGED uiOthers

\* Time passes while a request is pending, never past a due timeout.
UiTick ==
  \E d \in ClockSteps :
    /\ \E s \in Slots : inv[s].pc = "request"
    /\ \A s \in Slots : inv[s].pc = "request" =>
         inv[s].elapsed + d <= RequestTimeoutMs(navImpl, inv[s].kind)
    /\ inv' = [s \in Slots |->
                 IF inv[s].pc = "request"
                 THEN [inv[s] EXCEPT !.elapsed = inv[s].elapsed + d]
                 ELSE inv[s]]
    /\ NotAFinish
    /\ UNCHANGED <<boxInfo, quickDisabled, deepDisabled, boxPresent, uiOthers>>

HandlerStep(s) ==
  \/ ExpandBegin(s)
  \/ ExpandBatches(s)
  \/ ExpandSettle(s)
  \/ CollectDone(s)
  \/ RequestTimeout(s)

UiNext ==
  \/ ClickQuick
  \/ ClickDeep
  \/ \E s \in Slots : ExpandBegin(s)
  \/ \E s \in Slots : ExpandBatches(s)
  \/ \E s \in Slots : ExpandSettle(s)
  \/ \E s \in Slots : CollectDone(s)
  \/ \E s \in Slots : Respond(s)
  \/ \E s \in Slots : RequestTimeout(s)
  \/ UiTick

SpecUI == UiInit /\ [][UiNext]_vars

\* Every await of a handler is on timers or raced against one, time passes
\* and the event loop runs a due callback; a reply may never come.
SpecUIFair ==
  /\ SpecUI
  /\ WF_vars(UiTick)
  /\ \A s \in Slots : WF_vars(HandlerStep(s))

\* The host page takes the comments section out of the document, and with it
\* the buttons and the box the scripts had put into it.
HostRemovesSection ==
  /\ ~sectionGone
  /\ sectionGone' = TRUE
  /\ navButtons' = FALSE
  /\ containers' = 0
  /\ boxPresent' = FALSE
  /\ boxInfo' = NoBox
  /\ NotAFinish
  /\ UNCHANGED <<inv, qMsg, qShown, quickDisabled, deepDisabled,
                 sanVars, locVars, ldVars, rlVars, xpVars, clVars, obsVars, navImpl, href, currentUrl, navTimers,
                 histIntercepted, observerOn, ctlInitialized, tdFlip,
                 navBurst, navAct, lastFireTore>>

SectionNext == UiNext \/ HostRemovesSection

SpecUISection == UiInit /\ [][SectionNext]_vars

\* C1: under content.js, while an invocation is in flight both buttons are
\* disabled and no second invocation is in flight.
C1_NoSecondInvocation ==
  navImpl = "content" =>
    /\ Cardinality({s \in Slots : InFlight(s)}) <= 1
    /\ ~NoneInFlight => (quickDisabled /\ deepDisabled)

\* C2: every invocation in flight finishes; right after an invocation has
\* finished, by whatever path, the buttons it disabled are enabled; and no
\* button is disabled while no invocation is in flight.
C2_FinishesAndReleases ==
  /\ [](NoneInFlight => (~quickDisabled /\ ~deepDisabled))
  /\ [](uiAct = "finish" =>
          /\ uiPath \in ExitPaths
          /\ ~quickDisabled
          /\ (navImpl = "refactored" \/ uiKind = "deep") => ~deepDisabled)
  /\ \A s \in Slots : InFlight(s) ~> ~InFlight(s)

C2_Witness ==
  /\ uiAct = "finish"
  /\ uiPath = "timeout"
  /\ uiKind = "deep"
  /\ NoneInFlight
  /\ navButtons
  /\ ~quickDisabled
  /\ ~deepDisabled

\* C11: under content.js a pending request is never older than its timeout,
\* and an invocation that finishes by the timeout does so 60 s (quick) or
\* 90 s (deep) after its request was sent, with the error box showing the
\* timeout message and the buttons it disabled enabled.
C11_TimeoutSurfaced ==
  navImpl = "content" =>
    /\ \A s \in Slots :
         inv[s].pc = "request" =>
           inv[s].elapsed <= (IF inv[s].kind = "quick" THEN 60000 ELSE 90000)
    /\ (uiAct = "finish" /\ uiPath = "timeout") =>
         /\ uiElapsed = (IF uiKind = "quick" THEN 60000 ELSE 90000)
         /\ boxPresent
         /\ boxInfo.shows = "error"
         /\ boxInfo.text = "timeout"
         /\ ~quickDisabled
         /\ uiKind = "deep" => ~deepDisabled

C11_Witness ==
  /\ navImpl = "content"
  /\ uiAct = "finish"
  /\ uiPath = "timeout"
  /\ uiKind = "quick"
  /\ uiElapsed = 60000
  /\ boxInfo.shows = "error"
  /\ ~quickDisabled

\* C12: no request is pending for an empty collection, and an invocation
\* whose collection came back empty finishes without having sent a request,
\* with the error box showing the message of that error and the buttons it
\* disabled enabled.
C12_ZeroCommentsNoRequest ==
  /\ \A s \in Slots :
       inv[s].pc = "request" => (inv[s].n > 0 /\ inv[s].msgLen > 0)
  /\ (uiAct = "finish" /\ uiPath = "zero comments") =>
       /\ uiSent = -1
       /\ boxPresent
       /\ boxInfo.shows = "error"
       /\ boxInfo.text = "zero comments"
       /\ ~quickDisabled
       /\ (navImpl = "refactored" \/ uiKind = "deep") => ~deepDisabled

C12_Witness ==
  /\ uiAct = "finish"
  /\ uiPath = "zero comments"
  /\ uiKind = "deep"
  /\ uiSent = -1
  /\ boxInfo.shows = "error"
  /\ NoneInFlight
  /\ ~quickDisabled
  /\ ~deepDisabled

\* C23: right after a handler has finished by a failure, the error box with
\* the message of the failure is in the document and no loading box is.
C23_FailureShown ==
  (uiAct = "finish" /\ uiPath # "success") =>
    /\ boxPresent
    /\ boxInfo.shows = "error"
    /\ boxInfo.text = uiPath

C15_ExpansionNeverRejects ==
  uiAct = "expandFailed" =>
    /\ uiPath = "none"
    /\ \E s \in Slots : inv[s].pc = "expanded" /\ inv[s].kind = uiKind

C15_Witness ==
  /\ uiAct = "expandFailed"
  /\ uiKind = "deep"
  /\ \E s \in Slots : inv[s].pc = "expanded" /\ inv[s].kind = "deep"

C18_DeepMessageAccepted ==
  navImpl = "content" =>
    \A s \in Slots :
      (inv[s].pc = "request" /\ inv[s].kind = "deep" /\ inv[s].n > 100 /\ inv[s].n <= 200) =>
        /\ inv[s].msgLen = inv[s].n
        /\ CommentCountAccepted(navImpl, inv[s].msgLen)

\* A summarize session of content-refactored.js across a navigation to a
\* further watch page, whose document has its comments section.
SessionInit == UiInit /\ navImpl = "refactored"

\* history.pushState to a video not visited before, through the wrapper.
Navigate == \E u \in Urls : u > href /\ DetectionSignal(u)

SessionNext ==
  \/ UiNext
  \/ Navigate
  \/ Advance
  \/ ThrottleFire
  \/ ReinitFire
  \/ InitResolve

SpecSession == SessionInit /\ [][SessionNext]_vars

\* C37: under content-refactored.js, while a quick or deep handler is in
\* flight every button in the document is disabled, buttons injected after a
\* teardown included, and no second handler is in flight.
C37_ButtonsDisabledInFlight ==
  navImpl = "refactored" =>
    /\ (~NoneInFlight /\ navButtons) => (quickDisabled /\ deepDisabled)
    /\ Cardinality({s \in Slots : InFlight(s)}) <= 1

\* C19: under content-refactored.js a box in the document was produced by a
\* session started on the URL the last teardown was for, or on a later one:
\* none is of a session started on a URL left by a teardown.
C19_NoBoxOfTornDownSession ==
  (navImpl = "refactored" /\ boxPresent) => boxInfo.url >= currentUrl

\* The host page renders its comments section anew under
\* content-refactored.js: the injected button container is gone, the URL is
\* what it was.
HostRerender ==
  /\ navImpl = "refactored"
  /\ navButtons
  /\ navButtons' = FALSE
  /\ containers' = 0
  /\ navAct' = "rerender"
  /\ UNCHANGED <<navImpl, href, currentUrl, navTimers,
                 histIntercepted, observerOn, ctlInitialized, boxPresent, tdFlip,
                 quickDisabled, deepDisabled, navBurst, lastFireTore, navOthers>>

\* The observer sees an added node holding #comments.
ObserverSignal ==
  /\ observerOn
  /\ DetectionSignal(href)

\* waitForCommentsSection resolves on a page whose comments container is
\* visible.
InitResolveFound == InitResolve /\ navButtons'

RerenderNext ==
  \/ HostRerender
  \/ ObserverSignal
  \/ Navigate
  \/ Advance
  \/ ThrottleFire
  \/ ReinitFire
  \/ InitResolveFound

SpecRerender == SessionInit /\ [][RerenderNext]_vars

\* Time passes and the event loop runs the timers that are due and the
\* continuations that are ready.
SpecRerenderFair ==
  /\ SpecRerender
  /\ WF_vars(Advance)
  /\ WF_vars(ThrottleFire)
  /\ WF_vars(ReinitFire)
  /\ WF_vars(InitResolveFound)

\* C20: once the host page has removed the button container, the buttons
\* are in the document again at some later time.
C20_ButtonsReinjected == (navAct = "rerender" /\ ~navButtons) ~> navButtons

\* ---------------------------------------------------------------------------
\* The quick summarize path from the located texts to the message and the
\* box: loadAllCommentsWithoutScrolling and summarizeCommentsHandler of
\* content.js, loadVisibleComments, validateAndProcessComments and
\* handleSummarizeClick of content-refactored.js.
\* ---------------------------------------------------------------------------
MAX_COMMENT_LENGTH == 1000

Take(sq, n) == SubSeq(sq, 1, Min(Len(sq), n))

\* comments.slice(0, 100) of loadAllCommentsWithoutScrolling / loadVisibleComments
LoadVisibleUnsliced(located) == located

LoadVisible(located) == Take(located, QuickSlice)

\* The filter of validateAndProcessComments.
KeptAlways(comment) == TRUE

KeptByValidation(comment) ==
  /\ Len(Trim(comment)) >= MIN_COMMENT_LENGTH
  /\ Len(Trim(comment)) <= MAX_COMMENT_LENGTH

\* validateAndProcessComments on a list of 1..MAX_COMMENTS strings.
ValidateAndProcessComments(comments) ==
  LET kept == SelectSeq(comments, KeptByValidation)
  IN  Take([i \in 1..Len(kept) |-> SanitizeChars(kept[i], MAX_COMMENT_LENGTH)],
           MAX_COMMENTS)

\* The list sent and the count shown, by revision.
QuickMessage(impl, located) ==
  IF impl = "content" THEN Take(LoadVisible(located), QuickSlice)
  ELSE ValidateAndProcessComments(LoadVisible(located))

QuickShown(impl, located) ==
  Min(IF impl = "content" THEN Len(LoadVisible(located))
      ELSE Len(ValidateAndProcessComments(LoadVisible(located))),
      MAX_COMMENTS)

\* A comment longer than validateAndProcessComments keeps.
LongText == [i \in 1..(MAX_COMMENT_LENGTH + 1) |-> 97]

LongFirst(nodes) == <<[text |-> LongText, sel |-> 1]>> \o nodes

\* Documents with a comments container, some with more distinct comments
\* than a quick summarize takes, some with a comment of more than 1000
\* characters.
QuickInit ==
  /\ domNodes \in DomNodeLists \cup {LongFirst(l) : l \in {d \in DomNodeLists : Len(d) <= 1}}
  /\ domBulk \in {[sel |-> 0, n |-> 0]} \cup [sel : Selectors, n : {QuickSlice + 1}]
  /\ docHasComments = TRUE
  /\ cacheNode = "null"
  /\ lastCacheTime = 0
  /\ cacheTd = FALSE
  /\ now = 0
  /\ locPc = "idle"
  /\ locCall = "none"
  /\ locResult = <<>>
  /\ locExpanded = FALSE
  /\ locNoContainer = FALSE
  /\ locFault = NoFault
  /\ locThrew = FALSE
  /\ locServed = NotServed
  /\ SanIdle
  /\ LdIdle
  /\ NavIdle
  /\ UiIdle
  /\ RlIdle

\* The handler goes on with what findComments returned: the request is sent
\* with the list and, the summary there, the box shows the count;
\* validateAndProcessComments throws when it keeps nothing.
QuickSummarize ==
  /\ locPc = "idle"
  /\ locCall \in {"findComments", "contentFindComments"}
  /\ Len(locResult) > 0
  /\ LET impl == IF locCall = "findComments" THEN "refactored" ELSE "content"
     IN  IF QuickMessage(impl, locResult) # <<>>
         THEN /\ locPc' = "summarized"
              /\ qMsg' = QuickMessage(impl, locResult)
              /\ qShown' = QuickShown(impl, locResult)
         ELSE /\ locPc' = "quickFailed"
              /\ UNCHANGED <<qMsg, qShown>>
  /\ UNCHANGED <<domVars, cacheVars, locCall, locResult, locExpanded, locNoContainer, locFault, locThrew, locServed,
                 sanVars, ldVars, navVars,
                 inv, uiAct, uiKind, uiPath, uiElapsed, uiSent, boxInfo, sectionGone,
                 rlVars, xpVars, clVars, obsVars>>

QuickNext == LocCalls \/ QuickSummarize

SpecQuick == QuickInit /\ [][QuickNext]_vars

C13_WitnessLong ==
  /\ locPc = "summarized"
  /\ \E i \in 1..Len(locResult) : Len(locResult[i]) > 1000
  /\ Len(qMsg) < Len(locResult)
  /\ Len(locResult) <= 100

\* ---------------------------------------------------------------------------
\* The rate limiter of the background script: checkRateLimit and the cleanup
\* interval of background.js, RateLimitManager of its second revision.
\* ---------------------------------------------------------------------------
RateLimitMaxRequests == 10
RateLimitWindowMs == 60000

\* The clock advances by half a window at a time, this many times at most.
MaxRateTicks == 2
RateClockStep == RateLimitWindowMs \div 2

\* Accepted requests, over all tabs, up to which the runs are followed.
MaxAccepted == 11

RECURSIVE SumOver(_, _)
SumOver(f, dom) ==
  IF dom = {} THEN 0
  ELSE LET x == CHOOSE y \in dom : TRUE IN f[x] + SumOver(f, dom \ {x})

TotalAccepted == SumOver([t \in TabIds |-> Len(rlAccepted[t])], TabIds)

\* tabRequests.filter(time => now - time < RATE_LIMIT.windowMs)
RecentRequests(times, at) ==
  SelectSeq(times, LAMBDA time : at - time < RateLimitWindowMs)

RateInit ==
  /\ RlIdle
  /\ SanIdle
  /\ LocIdle
  /\ LdIdle
  /\ NavIdle
  /\ UiIdle

\* checkRateLimit(tabId): throws (returns false) with the map as it was when
\* the recent requests of the key are maxRequests or more; else stores the
\* recent requests with now appended.
CheckRateLimit(tab) ==
  LET key == RateLimitKey(tab)
      recentRequests == RecentRequests(rlRequests[key], rlNow)
  IN  IF Len(recentRequests) >= RateLimitMaxRequests
      THEN /\ rlLast' = [tab |-> tab, accepted |-> FALSE]
           /\ UNCHANGED <<rlNow, rlRequests, rlAccepted>>
      ELSE /\ TotalAccepted < MaxAccepted
           /\ rlRequests' = [rlRequests EXCEPT ![key] = Append(recentRequests, rlNow)]
           /\ rlAccepted' = [rlAccepted EXCEPT ![tab] = Append(@, rlNow)]
           /\ rlLast' = [tab |-> tab, accepted |-> TRUE]
           /\ UNCHANGED rlNow

SummarizeRequest == \E tab \in TabIds : CheckRateLimit(tab) /\ UNCHANGED rlOthers

\* The cleanup interval: every key keeps its recent requests; a key left with
\* none is deleted.
RateCleanup ==
  /\ rlRequests' = [k \in RateKeys |-> RecentRequests(rlRequests[k], rlNow)]
  /\ rlRequests' # rlRequests
  /\ rlLast' = NoDecision
  /\ UNCHANGED <<rlNow, rlAccepted, rlOthers>>

RateTick ==
  /\ rlNow < MaxRateTicks * RateClockStep
  /\ rlNow' = rlNow + RateClockStep
  /\ rlLast' = NoDecision
  /\ UNCHANGED <<rlRequests, rlAccepted, rlOthers>>

RateNext == SummarizeRequest \/ RateCleanup \/ RateTick

SpecRate == RateInit /\ [][RateNext]_vars

\* Accepted requests of a tab in the 60 s up to now, the one just decided
\* left out.
AcceptedBefore(tab) ==
  Len(SelectSeq(rlAccepted[tab], LAMBDA time : rlNow - time < 60000))
    - (IF rlLast.tab = tab /\ rlLast.accepted THEN 1 ELSE 0)

IsSuffix(sq, of) ==
  Len(sq) <= Len(of) /\ sq = SubSeq(of, Len(of) - Len(sq) + 1, Len(of))

\* C16: the request just decided was accepted if and only if fewer than 10
\* requests of its tab had been accepted in the preceding 60 s, whatever the
\* other tabs did; no tab has more than 10 accepted requests in a window of
\* 60 s; and only accepted requests are recorded.
C16_RateLimitDecision ==
  /\ rlLast.tab # 0 => (rlLast.accepted <=> AcceptedBefore(rlLast.tab) < 10)
  /\ \A tab \in TabIds :
       /\ \A i \in 1..Len(rlAccepted[tab]) :
            Cardinality({j \in 1..Len(rlAccepted[tab]) :
                           /\ rlAccepted[tab][j] >= rlAccepted[tab][i]
                           /\ rlAccepted[tab][j] < rlAccepted[tab][i] + 60000}) <= 10
       /\ IsSuffix(rlRequests[RateLimitKey(tab)], rlAccepted[tab])

\* A tab is denied its eleventh request of a window while another tab has
\* made a request.
C16_Witness ==
  /\ rlLast.tab = 1
  /\ ~rlLast.accepted
  /\ Len(rlAccepted[1]) = 10
  /\ Len(rlAccepted[2]) > 0
  /\ rlNow > 0

\* The tab is accepted again once its requests are 60 s old.
C16_WitnessExpired ==
  /\ rlLast.tab = 1
  /\ rlLast.accepted
  /\ Len(rlAccepted[1]) = 11
  /\ rlNow = 60000

\* ---------------------------------------------------------------------------
\* Both pipelines of content-refactored.js from the located texts to the
\* message: handleSummarizeClick and handleDeepSummarizeClick.
\* ---------------------------------------------------------------------------
\* return comments.slice(0, 150) of loadCommentsWithScrolling
LoadWithScrolling(located) == Take(located, ServiceCap)

PipelineInit ==
  /\ domNodes \in DomNodeLists \cup {LongFirst(l) : l \in {d \in DomNodeLists : Len(d) <= 1}}
  /\ domBulk \in {[sel |-> 0, n |-> 0]}
                   \cup [sel : Selectors, n : {QuickSlice + 1, ServiceCap + 1}]
  /\ docHasComments = TRUE
  /\ cacheNode = "null"
  /\ lastCacheTime = 0
  /\ cacheTd = FALSE
  /\ now = 0
  /\ locPc = "idle"
  /\ locCall = "none"
  /\ locResult = <<>>
  /\ locExpanded = FALSE
  /\ locNoContainer = FALSE
  /\ locFault = NoFault
  /\ locThrew = FALSE
  /\ locServed = NotServed
  /\ SanIdle
  /\ LdIdle
  /\ NavIdle
  /\ UiIdle
  /\ RlIdle

\* handleDeepSummarizeClick with what the last findComments of the loader
\* returned: the request is sent with what validateAndProcessComments keeps
\* of the loader's list; validateAndProcessComments throws when it keeps
\* nothing.
DeepSummarize ==
  /\ locPc = "idle"
  /\ locCall = "findComments"
  /\ Len(locResult) > 0
  /\ IF ValidateAndProcessComments(LoadWithScrolling(locResult)) # <<>>
     THEN /\ locPc' = "deepSummarized"
          /\ qMsg' = ValidateAndProcessComments(LoadWithScrolling(locResult))
          /\ qShown' = Min(Len(ValidateAndProcessComments(LoadWithScrolling(locResult))),
                           MAX_COMMENTS)
     ELSE /\ locPc' = "deepFailed"
          /\ UNCHANGED <<qMsg, qShown>>
  /\ UNCHANGED <<domVars, cacheVars, locCall, locResult, locExpanded, locNoContainer, locFault, locThrew, locServed,
                 sanVars, ldVars, navVars,
                 inv, uiAct, uiKind, uiPath, uiElapsed, uiSent, boxInfo, sectionGone,
                 rlVars, xpVars, clVars, obsVars>>

PipelineNext == LocCalls \/ QuickSummarize \/ DeepSummarize

SpecPipeline == PipelineInit /\ [][PipelineNext]_vars

\* C22: under content-refactored.js every comment of a list sent has 5 to
\* 1000 characters, the list has at most 100 (quick) or 150 (deep) items, and
\* the handler fails without a request exactly when none of the first 100 or
\* 150 located texts has 5 to 1000 characters.
C22_MessageValidated ==
  locCall = "findComments" =>
    LET cap == IF locPc \in {"summarized", "quickFailed"} THEN 100 ELSE 150
        inRange == {i \in 1..Min(Len(locResult), cap) :
                      Len(locResult[i]) >= 5 /\ Len(locResult[i]) <= 1000}
    IN  /\ locPc \in {"summarized", "deepSummarized"} =>
             /\ Len(qMsg) >= 1
             /\ Len(qMsg) <= cap
             /\ \A i \in 1..Len(qMsg) : Len(qMsg[i]) >= 5 /\ Len(qMsg[i]) <= 1000
             /\ inRange # {}
        /\ locPc \in {"quickFailed", "deepFailed"} => (qMsg = <<>> /\ inRange = {})

\* A deep summarize of more than 150 located texts, one of them too long.
C22_Witness ==
  /\ locCall = "findComments"
  /\ locPc = "deepSummarized"
  /\ Len(locResult) > 150
  /\ \E i \in 1..150 : Len(locResult[i]) > 1000
  /\ Len(qMsg) = 149

\* A summarize whose only located text is too long.
C22_WitnessNothingKept ==
  /\ locCall = "findComments"
  /\ locPc \in {"quickFailed", "deepFailed"}
  /\ Len(locResult) = 1

\* ---------------------------------------------------------------------------
\* The class-based content script (ContentScriptController with its own
\* loaders): loadVisibleComments, loadCommentsWithScrolling,
\* validateAndProcessComments and the two click handlers.  domNodes is the
\* document's '#content-text' elements, locResult the comments array of the
\* loader, ldIter its attempts, qMsg the list sent.
\* ---------------------------------------------------------------------------
ClassMaxAttempts == 3

\* textContent values: six letters, the same after a space, five letters.
TxtSix == <<97, 97, 97, 97, 97, 97>>
TxtSixSpace == <<32, 97, 97, 97, 97, 97, 97>>
TxtSixB == <<98, 98, 98, 98, 98, 98>>
ClassPool == {TxtSix, TxtSixSpace, TxtSixB, TxtA}
ClassNodes == [text : ClassPool, sel : {1}]
ClassDocuments == UNION {[1..k -> ClassNodes] : k \in 0..MaxNodes}

\* loadVisibleComments: the trimmed textContent of every '#content-text'
\* element, kept when longer than 5.
ClassLoadVisible(nodes) ==
  SelectSeq([i \in 1..Len(nodes) |-> Trim(nodes[i].text)], LAMBDA text : Len(text) > 5)

\* [...new Set(comments)]
RECURSIVE UniqueInOrder(_)
UniqueInOrder(sq) ==
  IF sq = <<>> THEN <<>>
  ELSE LET front == UniqueInOrder(SubSeq(sq, 1, Len(sq) - 1))
           last == sq[Len(sq)]
       IN  IF \E i \in 1..Len(front) : front[i] = last THEN front ELSE Append(front, last)

\* validateAndProcessComments on a non-empty array.
ClassValidate(comments) ==
  SelectSeq(Take(comments, 200), LAMBDA c : Len(c) > 5 /\ Len(c) < 1000)

classOthers == <<domBulk, docHasComments, cacheVars, locExpanded, locNoContainer, locFault, locThrew, locServed,
                 sanVars, ldImpl, ldPc, scrollY, ldOrigin, ldCount, ldBefore, ldHist,
                 ldReturned, navVars, inv, uiAct, uiKind, uiPath, uiElapsed, uiSent,
                 boxInfo, qShown, sectionGone, rlVars, xpVars, clVars, obsVars>>

ClassInit ==
  /\ domNodes \in ClassDocuments
  /\ domBulk = [sel |-> 0, n |-> 0]
  /\ docHasComments = TRUE
  /\ cacheNode = "null"
  /\ lastCacheTime = 0
  /\ cacheTd = FALSE
  /\ now = 0
  /\ locPc = "idle"
  /\ locCall = "none"
  /\ locResult = <<>>
  /\ locExpanded = FALSE
  /\ locNoContainer = FALSE
  /\ locFault = NoFault
  /\ locThrew = FALSE
  /\ locServed = NotServed
  /\ SanIdle
  /\ LdIdle
  /\ NavIdle
  /\ UiIdle
  /\ RlIdle

\* handleSummarizeClick: validateAndProcessComments throws on an empty array,
\* else what it keeps is sent.
ClassSummarize ==
  /\ locPc = "idle"
  /\ locCall = "none"
  /\ locCall' = "classQuick"
  /\ locResult' = ClassLoadVisible(domNodes)
  /\ IF ClassLoadVisible(domNodes) = <<>>
     THEN locPc' = "classFailed" /\ qMsg' = qMsg
     ELSE locPc' = "classSent" /\ qMsg' = ClassValidate(ClassLoadVisible(domNodes))
  /\ UNCHANGED <<domNodes, ldIter, classOthers>>

\* handleDeepSummarizeClick up to the first await of the loader's loop.
ClassDeepBegin ==
  /\ locPc = "idle"
  /\ locCall = "none"
  /\ locCall' = "classDeep"
  /\ locPc' = "classLoop"
  /\ locResult' = <<>>
  /\ ldIter' = 0
  /\ UNCHANGED <<domNodes, qMsg, classOthers>>

\* One turn of the loop of loadCommentsWithScrolling: the visible comments
\* are pushed, the load-more control is clicked or the page scrolled, and
\* during the wait the page may render a further comment.
ClassDeepIterate ==
  /\ locPc = "classLoop"
  /\ ldIter < ClassMaxAttempts
  /\ locResult' = locResult \o ClassLoadVisible(domNodes)
  /\ ldIter' = ldIter + 1
  /\ \/ domNodes' = domNodes
     \/ /\ Len(domNodes) < MaxNodes
        /\ \E nd \in ClassNodes : domNodes' = Append(domNodes, nd)
  /\ UNCHANGED <<locPc, locCall, qMsg, classOthers>>

\* The loop is over: the scroll position is restored, the duplicates are
\* removed and the handler goes on as the quick one.
ClassDeepFinish ==
  /\ locPc = "classLoop"
  /\ ldIter = ClassMaxAttempts
  /\ locResult' = UniqueInOrder(locResult)
  /\ IF locResult = <<>>
     THEN locPc' = "classFailed" /\ qMsg' = qMsg
     ELSE locPc' = "classSent" /\ qMsg' = ClassValidate(UniqueInOrder(locResult))
  /\ UNCHANGED <<domNodes, locCall, ldIter, classOthers>>

ClassNext == ClassSummarize \/ ClassDeepBegin \/ ClassDeepIterate \/ ClassDeepFinish

SpecClass == ClassInit /\ [][ClassNext]_vars

\* C24: the list the class-based script sends holds no text twice.
C24_ClassMessageNoDuplicates ==
  locPc = "classSent" => NoDuplicates(qMsg)

\* ---------------------------------------------------------------------------
\* One invocation of CommentService.expandReplyThreads, step by step: the
\* controls found by querySelectorAll are gone through in batches, every
\* await is a timer, and the host page may hide or disable a control while
\* the invocation waits.
\* ---------------------------------------------------------------------------
MaxControls == 4
BatchSize == 3
ClickDelay == 100
BatchDelay == 200
REPLY_EXPANSION_DELAY == 1000

ControlStates == {"ok", "hidden", "disabled"}

\* button && button.offsetParent !== null && !button.disabled
ClickableAlways(state) == TRUE

Clickable(state) == state = "ok"

\* Where the invocation is at its next await, having examined the controls
\* from index p on: at the delay after the click on a control, at the delay
\* between two batches, or at the settle delay.
RECURSIVE AwaitFrom(_, _, _)
AwaitFrom(p, buttons, st) ==
  IF p > Len(buttons)
  THEN [st EXCEPT !.pc = "settle", !.at = Len(buttons),
                  !.wake = st.now + REPLY_EXPANSION_DELAY]
  ELSE IF Clickable(buttons[p])
  THEN [st EXCEPT !.pc = "clickWait", !.at = p, !.wake = st.now + ClickDelay,
                  !.log = Append(st.log, [idx |-> p, time |-> st.now,
                                          state |-> buttons[p]])]
  ELSE IF p % BatchSize = 0 /\ p < Len(buttons)
  THEN [st EXCEPT !.pc = "batchWait", !.at = p, !.wake = st.now + BatchDelay]
  ELSE AwaitFrom(p + 1, buttons, st)

\* The control at hand has been dealt with: the batch goes on, or it is over
\* and the delay between batches or the settle delay follows.
AfterControl(p, buttons, st) ==
  IF p >= Len(buttons)
  THEN AwaitFrom(Len(buttons) + 1, buttons, st)
  ELSE IF p % BatchSize = 0
  THEN [st EXCEPT !.pc = "batchWait", !.at = p, !.wake = st.now + BatchDelay]
  ELSE AwaitFrom(p + 1, buttons, st)

XpInit ==
  /\ xpButtons \in UNION {[1..k -> ControlStates] : k \in 0..MaxControls}
  /\ xp = XpIdle
  /\ clImpl = "content"
  /\ cleanupRegistry = <<>>
  /\ isCleaningUp = FALSE
  /\ clCalls = 0
  /\ clAct = "none"
  /\ clFn = 0
  /\ clKinds = <<>>
  /\ clRun = ClRunIdle
  /\ ObsIdle
  /\ rlNow = 0
  /\ rlRequests = [k \in RateKeys |-> <<>>]
  /\ rlAccepted = [t \in TabIds |-> <<>>]
  /\ rlLast = NoDecision
  /\ SanIdle
  /\ LocIdle
  /\ LdIdle
  /\ NavIdle
  /\ UiIdle

\* expandReplyThreads is called and runs to its first await.
ExpandCall ==
  /\ xp.pc = "idle"
  /\ xp' = AwaitFrom(1, xpButtons, xp)
  /\ UNCHANGED <<xpButtons, xpOthers>>

\* The pending timer is due and the invocation runs to its next await, or to
\* its end after the settle delay.
ExpandResume ==
  /\ xp.pc \in {"clickWait", "batchWait", "settle"}
  /\ LET woken == [xp EXCEPT !.now = xp.wake]
     IN  xp' = CASE xp.pc = "clickWait" -> AfterControl(xp.at, xpButtons, woken)
                 [] xp.pc = "batchWait" -> AwaitFrom(xp.at + 1, xpButtons, woken)
                 [] OTHER -> [woken EXCEPT !.pc = "done"]
  /\ UNCHANGED <<xpButtons, xpOthers>>

\* While the invocation waits the host page shows, hides, enables or
\* disables a control.
HostChangesControl ==
  /\ xp.pc \in {"clickWait", "batchWait"}
  /\ \E k \in 1..Len(xpButtons), state \in ControlStates :
       /\ xpButtons[k] # state
       /\ xpButtons' = [xpButtons EXCEPT ![k] = state]
  /\ UNCHANGED <<xp, xpOthers>>

XpNext == ExpandCall \/ ExpandResume \/ HostChangesControl

SpecExpand == XpInit /\ [][XpNext]_vars

BatchOf(idx) == (idx + 2) \div 3

\* C25: the clicks of an invocation are made in the order of the controls,
\* each on a control visible and enabled at that moment; between a click and
\* the next lie 100 ms and 200 ms more for every batch boundary passed; and
\* the invocation ends 1 s after the last batch, all controls gone through.
C25_ClicksInBatches ==
  /\ \A i \in 1..Len(xp.log) : xp.log[i].state = "ok"
  /\ \A i \in 1..(Len(xp.log) - 1) :
       /\ xp.log[i].idx < xp.log[i + 1].idx
       /\ xp.log[i + 1].time - xp.log[i].time
            = 100 + 200 * (BatchOf(xp.log[i + 1].idx) - BatchOf(xp.log[i].idx))
  /\ xp.pc \in {"clickWait", "batchWait"} =>
       /\ xp.at >= 1
       /\ \A i \in 1..Len(xp.log) : xp.log[i].idx <= xp.at
  /\ xp.pc \in {"settle", "done"} =>
       /\ xp.at = Len(xpButtons)
       /\ xp.wake - 1000 >= 200 * (BatchOf(Len(xpButtons)) - 1) + 100 * Len(xp.log)
       /\ xp.log # <<>> =>
            xp.wake - 1000 = xp.log[Len(xp.log)].time + 100
              + 200 * (BatchOf(Len(xpButtons)) - BatchOf(xp.log[Len(xp.log)].idx))
  /\ xp.pc = "done" => xp.now = xp.wake

\* Four controls: the first two clicked, the third hidden by the host page
\* in time, the fourth clicked after the delay between the batches.
C25_Witness ==
  /\ xp.pc = "done"
  /\ Len(xpButtons) = 4
  /\ Len(xp.log) = 3
  /\ xp.log[3].idx = 4
  /\ xp.log[3].time = 400
  /\ xpButtons[3] = "hidden"
  /\ xp.now = 1500

(***************************************************************************)
(* Lookup failures: content.js findComments and CommentService.findComments *)
(* on documents one of whose lookup strategies throws.                      *)
(***************************************************************************)

FaultPool == {TxtA, TxtSix, TxtSixB}
FaultDocuments == UNION {[1..k -> [text : FaultPool, sel : Selectors]] : k \in 0..MaxNodes}
\* Where a strategy throws: in querySelectorAll, at one of its first elements,
\* or at an element past everything findCommentsWithoutExpanding handles.
FaultPositions == {0, 1, 2, QUICK_CHECK_LIMIT + MaxNodes + 1}
FaultPatterns == {NoFault} \cup [sel : Selectors, at : FaultPositions]

LocFaultInit ==
  /\ domNodes \in FaultDocuments
  /\ domBulk \in {[sel |-> 0, n |-> 0], [sel |-> 1, n |-> MAX_COMMENTS + 1]}
  /\ docHasComments = TRUE
  /\ locFault \in FaultPatterns
  /\ cacheNode = "null"
  /\ lastCacheTime = 0
  /\ cacheTd = FALSE
  /\ now = 0
  /\ locPc = "idle"
  /\ locCall = "none"
  /\ locResult = <<>>
  /\ locExpanded = FALSE
  /\ locNoContainer = FALSE
  /\ locThrew = FALSE
  /\ locServed = NotServed
  /\ SanIdle
  /\ LdIdle
  /\ NavIdle
  /\ UiIdle
  /\ RlIdle

SpecLocatorFaults == LocFaultInit /\ [][LocCalls]_vars

\* Whether text is the sanitized textContent of an element of strategy s.
FromStrategy(text, s) ==
  \E j \in 1..Len(DocElements(s)) :
    sanitize(Str(DocElements(s)[j]), DefaultMaxLength) = text

\* C27: every text content.js findComments returns comes from one and the
\* same lookup strategy, whatever the document and whichever strategy
\* throws, also one that throws after some of its elements were accepted.
C27_SingleStrategy ==
  locCall = "contentFindComments" =>
    \E s \in Selectors : \A i \in 1..Len(locResult) : FromStrategy(locResult[i], s)

\* C28: CommentService.findComments, once its quick check has returned and
\* the replies are expanded, never rejects because a lookup strategy threw,
\* the primary '#content-text' lookup included.
C28_StrategyFailureCaught ==
  (locCall = "findComments" /\ locExpanded) => ~locThrew

\* C29: a candidate is rejected only when its sanitized text is shorter than
\* 5 characters or was already accepted: on a document below the cap, every
\* text of at least 5 characters among the elements of the primary strategy
\* is in what findComments returns, in content.js as in CommentService.
C29_FiveCharactersAccepted ==
  (locCall \in {"contentFindComments", "findComments"} /\ ~locThrew
     /\ locFault = NoFault /\ domBulk.sel = 0) =>
    \A j \in 1..Len(DocElements(1)) :
      LET text == sanitize(Str(DocElements(1)[j]), DefaultMaxLength) IN
      Len(text) >= MIN_COMMENT_LENGTH => InSeq(text, locResult)

\* The same for CommentService.findComments alone.
ServiceFiveCharactersAccepted ==
  locCall = "contentFindComments" \/ C29_FiveCharactersAccepted

(***************************************************************************)
(* Cleanup registry: addCleanup and performCleanup of content.js and of    *)
(* UIService.  Every caller passes a new closure; a call with a callback   *)
(* the Set already holds is drawn as well.                                 *)
(***************************************************************************)

\* CONFIG.maxCleanupItems (content.js), CONSTANTS.PERFORMANCE.MAX_CLEANUP_ITEMS
ContentMaxCleanupItems == 100
MAX_CLEANUP_ITEMS == 50
MaxCleanupItems(impl) ==
  IF impl = "content" THEN ContentMaxCleanupItems ELSE MAX_CLEANUP_ITEMS

\* addCleanup calls drawn beyond those that fill the registry
MaxExtraAdds == 3

\* (variant that drops the newest entry)
EvictNewest(registry) == SubSeq(registry, 1, Len(registry) - 1)

\* iterator.next().value of registry.values() is deleted: the first entry in
\* insertion order
EvictOldest(registry) == Tail(registry)

\* Set.prototype.add: appended unless present
SetAdd(registry, fn) == IF InSeq(fn, registry) THEN registry ELSE Append(registry, fn)

\* A closure not registered before
NewCallback(registry) ==
  IF registry = <<>> THEN 1
  ELSE 1 + CHOOSE m \in {registry[i] : i \in 1..Len(registry)} :
             \A i \in 1..Len(registry) : registry[i] <= m

\* Callbacks addCleanup is called with: a new closure, or the oldest or the
\* newest one of the registry.
CallbacksToAdd(registry) ==
  {NewCallback(registry)} \cup
    (IF registry = <<>> THEN {} ELSE {registry[1], registry[Len(registry)]})

ClInit ==
  /\ clImpl \in {"content", "service"}
  /\ cleanupRegistry = <<>>
  /\ isCleaningUp = FALSE
  /\ clCalls = 0
  /\ clAct = "none"
  /\ clFn = 0
  /\ clKinds = <<>>
  /\ clRun = ClRunIdle
  /\ ObsIdle
  /\ xpButtons = <<>>
  /\ xp = XpIdle
  /\ rlNow = 0
  /\ rlRequests = [k \in RateKeys |-> <<>>]
  /\ rlAccepted = [t \in TabIds |-> <<>>]
  /\ rlLast = NoDecision
  /\ SanIdle
  /\ LocIdle
  /\ LdIdle
  /\ NavIdle
  /\ UiIdle

\* addCleanup(fn)
AddCleanup ==
  /\ clCalls < MaxCleanupItems(clImpl) + MaxExtraAdds
  /\ \E fn \in CallbacksToAdd(cleanupRegistry) :
       /\ cleanupRegistry' =
            SetAdd(IF Len(cleanupRegistry) >= MaxCleanupItems(clImpl)
                   THEN EvictOldest(cleanupRegistry)
                   ELSE cleanupRegistry,
                   fn)
       /\ clFn' = fn
  /\ clCalls' = clCalls + 1
  /\ clAct' = "add"
  /\ UNCHANGED <<clImpl, isCleaningUp, clKinds, clRun, sanVars, locVars, ldVars, navVars,
                 uiVars, rlVars, xpVars, obsVars>>

\* performCleanup(): nothing while a cleanup runs; else the boxes and the
\* button container leave the document, every registered callback is called
\* inside its own try, the registry is cleared and the flag is reset.
PerformCleanup ==
  /\ ~isCleaningUp
  /\ clRun.pc = "idle"
  /\ boxPresent' = FALSE
  /\ boxInfo' = NoBox
  /\ navButtons' = FALSE
  /\ containers' = 0
  /\ cleanupRegistry' = <<>>
  /\ isCleaningUp' = FALSE
  /\ clCalls' = 0
  /\ clAct' = "cleanup"
  /\ clFn' = 0
  /\ UNCHANGED <<clImpl, clKinds, clRun, sanVars, locVars, ldVars, rlVars, xpVars, obsVars,
                 inv, uiAct, uiKind, uiPath, uiElapsed, uiSent, qMsg, qShown, sectionGone,
                 navImpl, href, currentUrl, navTimers, histIntercepted, observerOn,
                 ctlInitialized, tdFlip, quickDisabled, deepDisabled,
                 navBurst, navAct, lastFireTore>>

ClNext == AddCleanup \/ PerformCleanup

SpecCleanup == ClInit /\ [][ClNext]_vars

\* An addCleanup on a full registry leaves the registry without its oldest
\* entry and otherwise as it was, the callback added at its end.
C30_OldestEvicted ==
  (clAct' = "add" /\ Len(cleanupRegistry) = MaxCleanupItems(clImpl)) =>
    /\ SubSeq(cleanupRegistry', 1, Len(cleanupRegistry) - 1) = Tail(cleanupRegistry)
    /\ InSeq(clFn', cleanupRegistry')
    /\ Len(cleanupRegistry') <= Len(cleanupRegistry)
    /\ \A i \in 1..Len(cleanupRegistry') :
         InSeq(cleanupRegistry'[i], Tail(cleanupRegistry)) \/ cleanupRegistry'[i] = clFn'

\* C30: the cleanup registry never holds more than maxCleanupItems callbacks
\* (100 in content.js, 50 in UIService); an addCleanup on a full registry
\* evicts the oldest registered callback and no other; the registry is empty
\* after performCleanup.
C30_RegistryBounded ==
  /\ [](Len(cleanupRegistry) <= MaxCleanupItems(clImpl))
  /\ [](clAct = "cleanup" => cleanupRegistry = <<>>)
  /\ [][C30_OldestEvicted]_vars

C30_Witness ==
  /\ clAct = "add"
  /\ Len(cleanupRegistry) = MaxCleanupItems(clImpl)
  /\ cleanupRegistry[1] = 2
  /\ clFn = MaxCleanupItems(clImpl) + 1
  /\ cleanupRegistry[Len(cleanupRegistry)] = clFn

C30_WitnessCleanup ==
  /\ clAct = "cleanup"
  /\ cleanupRegistry = <<>>

(***************************************************************************)
(* performCleanup in steps: the entry, one step per callback of the        *)
(* forEach, the clear and the finally.  The call is synchronous: while it  *)
(* runs nothing else does, but a callback may call it again.               *)
(***************************************************************************)

MaxCallbacks == 3
MaxCleanupRuns == 2
CallbackKinds == {"ok", "throws", "reenters"}

\* (variant without the isCleaningUp test)
ReturnsAtOnceNever(flag) == FALSE

\* if (isCleaningUp) return;
ReturnsAtOnce(flag) == flag

\* Registries of new closures, each with what it does when called.
ClRunInit ==
  /\ clImpl \in {"content", "service"}
  /\ \E k \in 0..MaxCallbacks :
       /\ cleanupRegistry = [i \in 1..k |-> i]
       /\ clKinds \in [1..k -> CallbackKinds]
       /\ clCalls = k
  /\ isCleaningUp = FALSE
  /\ clAct = "none"
  /\ clFn = 0
  /\ clRun = ClRunIdle
  /\ ObsIdle
  /\ xpButtons = <<>>
  /\ xp = XpIdle
  /\ rlNow = 0
  /\ rlRequests = [k \in RateKeys |-> <<>>]
  /\ rlAccepted = [t \in TabIds |-> <<>>]
  /\ rlLast = NoDecision
  /\ SanIdle
  /\ LocIdle
  /\ LdIdle
  /\ NavIdle
  /\ UiIdle

clRunOthers == <<clImpl, clKinds, sanVars, locVars, ldVars, rlVars, xpVars, obsVars,
                 inv, uiAct, uiKind, uiPath, uiElapsed, uiSent, qMsg, qShown, sectionGone,
                 navImpl, href, currentUrl, navTimers, histIntercepted, observerOn,
                 ctlInitialized, tdFlip, quickDisabled, deepDisabled,
                 navBurst, navAct, lastFireTore>>

\* performCleanup() is called from outside: the flag is set, the boxes and
\* the button container leave the document, the forEach begins.
CleanupCall ==
  /\ clRun.pc = "idle"
  /\ clRun.runs < MaxCleanupRuns
  /\ ~ReturnsAtOnce(isCleaningUp)
  /\ isCleaningUp' = TRUE
  /\ boxPresent' = FALSE
  /\ boxInfo' = NoBox
  /\ navButtons' = FALSE
  /\ containers' = 0
  /\ clRun' = [clRun EXCEPT !.pc = "callbacks", !.at = 1, !.had = cleanupRegistry,
                            !.ran = <<>>, !.nested = 0]
  /\ clAct' = "none"
  /\ UNCHANGED <<cleanupRegistry, clCalls, clFn, clRunOthers>>

\* The forEach calls the next callback inside its try: a throw is caught and
\* logged; a callback that calls performCleanup gets the early return while
\* the flag is set.
CleanupCallback ==
  /\ clRun.pc = "callbacks"
  /\ clRun.at <= Len(cleanupRegistry)
  /\ LET fn == cleanupRegistry[clRun.at]
         reenters == clKinds[fn] = "reenters"
     IN  clRun' = [clRun EXCEPT
                     !.at = @ + 1,
                     !.ran = Append(@, fn),
                     !.all = Append(@, fn),
                     !.nested = IF reenters /\ ReturnsAtOnce(isCleaningUp)
                                THEN @ + 1 ELSE @,
                     !.reran = @ \/ (reenters /\ ~ReturnsAtOnce(isCleaningUp))]
  /\ UNCHANGED <<cleanupRegistry, isCleaningUp, clCalls, clAct, clFn, boxPresent, boxInfo,
                 navButtons, containers, clRunOthers>>

\* After the forEach: cleanupRegistry.clear(), finally isCleaningUp = false.
CleanupReturn ==
  /\ clRun.pc = "callbacks"
  /\ clRun.at > Len(cleanupRegistry)
  /\ cleanupRegistry' = <<>>
  /\ isCleaningUp' = FALSE
  /\ clCalls' = 0
  /\ clAct' = "cleanup"
  /\ clFn' = 0
  /\ clRun' = [clRun EXCEPT !.pc = "idle", !.at = 0, !.runs = @ + 1]
  /\ UNCHANGED <<boxPresent, boxInfo, navButtons, containers, clRunOthers>>

ClRunNext == CleanupCall \/ CleanupCallback \/ CleanupReturn

SpecCleanupRun == ClRunInit /\ [][ClRunNext]_vars

\* C31: performCleanup calls every registered callback once, in order, also
\* after one of them threw, and returns normally; a call of it from inside a callback returns at
\* once; the flag is false whenever no call runs; over two calls in a row no
\* callback is called twice, the second calling none.
C31_CleanupSafe ==
  /\ clRun.pc = "idle" => ~isCleaningUp
  /\ clRun.pc = "callbacks" => isCleaningUp
  /\ ~clRun.reran
  /\ NoDuplicates(clRun.all)
  /\ clAct = "cleanup" =>
       /\ clRun.ran = clRun.had
       /\ cleanupRegistry = <<>>
       /\ clRun.nested = Cardinality({i \in 1..Len(clRun.had) : clKinds[clRun.had[i]] = "reenters"})
       /\ clRun.runs > 1 => clRun.ran = <<>>

C31_Witness ==
  /\ clAct = "cleanup"
  /\ clRun.runs = 2
  /\ clRun.all = <<1, 2, 3>>
  /\ clKinds[1] = "throws"
  /\ clKinds[2] = "reenters"
  /\ clRun.ran = <<>>
  /\ ~isCleaningUp

(***************************************************************************)
(* The locator cache across navigations of content-refactored.js: the      *)
(* CommentService of the controller lives as long as the page does.        *)
(***************************************************************************)

LocNavInit ==
  /\ domNodes \in DomNodeLists
  /\ domBulk = [sel |-> 0, n |-> 0]
  /\ docHasComments \in BOOLEAN
  /\ cacheNode = "null"
  /\ lastCacheTime = 0
  /\ cacheTd = FALSE
  /\ now = 0
  /\ locPc = "idle"
  /\ locCall = "none"
  /\ locResult = <<>>
  /\ locExpanded = FALSE
  /\ locNoContainer = FALSE
  /\ locFault = NoFault
  /\ locThrew = FALSE
  /\ locServed = NotServed
  /\ navImpl = "refactored"
  /\ href = 1
  /\ currentUrl = 1
  /\ throttle = <<>>
  /\ checks = <<>>
  /\ reinitPending = 0
  /\ initWaiting = 0
  /\ initAttempts = 0
  /\ initFails = 0
  /\ histIntercepted = TRUE
  /\ observerOn = TRUE
  /\ navButtons = TRUE
  /\ containers = 1
  /\ ctlInitialized = TRUE
  /\ boxPresent = FALSE
  /\ tdFlip = FALSE
  /\ burstSignals = 0
  /\ burstTeardowns = 0
  /\ burstReinits = 0
  /\ burstChanged = FALSE
  /\ navAct = "none"
  /\ lastFireTore = FALSE
  /\ quickDisabled = FALSE
  /\ deepDisabled = FALSE
  /\ SanIdle
  /\ LdIdle
  /\ UiIdle
  /\ RlIdle

LocNavNext ==
  \/ FindCommentsWithoutExpanding
  \/ FindCommentsBegin
  \/ FindCommentsFinish
  \/ RemoveContainer
  \/ AddContainer
  \/ Tick
  \/ Navigate
  \/ Advance
  \/ ThrottleFire
  \/ ReinitFire
  \/ InitResolve

SpecLocatorNav == LocNavInit /\ [][LocNavNext]_vars

\* C32: getCachedCommentsSection returns no node queried more than the TTL of
\* 5 s before the call, and none queried before a teardown of
\* ContentScriptController.handleNavigation that came before the call (the
\* query being a throttle window or more old).
C32_NeverStale ==
  /\ locServed.node # "null" => locServed.age <= CACHE_TIMEOUT
  /\ locServed.torn => locServed.age < THROTTLE_MS

\* The TTL half of C32 alone.
C32_WithinTtl ==
  locServed.node # "null" => locServed.age <= CACHE_TIMEOUT

C32_WitnessTtl ==
  /\ locServed.node = "attached"
  /\ locServed.age = 0
  /\ now > CACHE_TIMEOUT
  /\ lastCacheTime = now

(***************************************************************************)
(* The history wrappers of content.js, called with arguments on which the  *)
(* original pushState or replaceState may throw.                           *)
(***************************************************************************)

\* How often the wrapper applies the original: once in the try, and once
\* more in the catch block when the try threw.
OriginalCalls(throws) == IF throws THEN 2 ELSE 1

\* history.pushState(...args) or history.replaceState(...args) while the
\* wrappers of content.js are installed: the original is applied and
\* handleNavigation is scheduled 100 ms later; when the original throws, the
\* catch block logs and applies it again, and that throw leaves the wrapper.
WrappedHistoryCall ==
  /\ navImpl = "content"
  /\ histIntercepted
  /\ reinitPending < MaxPendingInits
  /\ Len(checks) < MaxChecks
  /\ \E location \in Urls, throws \in BOOLEAN :
       /\ histCall' = [made |-> TRUE, calls |-> OriginalCalls(throws),
                       hooked |-> ~throws, threw |-> throws]
       /\ href' = IF throws THEN href ELSE location
       /\ checks' = IF throws THEN checks ELSE Append(checks, CHECK_DELAY)
       /\ navAct' = IF throws THEN "none" ELSE "signal"
  /\ UNCHANGED <<injectFails, races, msgs, navImpl, currentUrl, throttle, reinitPending, initWaiting, initAttempts, initFails,
                 navPage, navBurst, lastFireTore,
                 sanVars, locVars, ldVars, uiVars, rlVars, xpVars, clVars>>

\* The navigation monitor with history calls whose original may throw.
WrapNext == NavNext \/ WrappedHistoryCall

SpecWrap == NavInit /\ [][WrapNext]_vars

\* C33: a call of a history function wrapped by content.js applies the
\* original exactly once, also when the original throws, and schedules
\* handleNavigation only when the original has completed.
C33_OriginalOnce ==
  histCall.made =>
    /\ histCall.calls = 1
    /\ histCall.hooked => ~histCall.threw

(***************************************************************************)
(* The navigation monitor on pages where the injection of the buttons may  *)
(* throw inside its try block.                                             *)
(***************************************************************************)

InjectInit ==
  /\ injectFails \in BOOLEAN
  /\ histCall = NoHistCall
  /\ races = NoRaces
  /\ msgs = NoMessages
  /\ navImpl \in NavImpls
  /\ href = 1
  /\ currentUrl = 1
  /\ throttle = <<>>
  /\ checks = <<>>
  /\ reinitPending = 0
  /\ initWaiting = 0
  /\ initAttempts = 0
  /\ initFails = 0
  /\ histIntercepted = TRUE
  /\ observerOn = TRUE
  /\ navButtons \in BOOLEAN
  /\ containers = IF navButtons THEN 1 ELSE 0
  /\ ctlInitialized = (navImpl = "refactored" /\ navButtons)
  /\ boxPresent = FALSE
  /\ tdFlip = FALSE
  /\ burstSignals = 0
  /\ burstTeardowns = 0
  /\ burstReinits = 0
  /\ burstChanged = FALSE
  /\ navAct = "none"
  /\ lastFireTore = FALSE
  /\ quickDisabled = FALSE
  /\ deepDisabled = FALSE
  /\ SanIdle
  /\ LocIdle
  /\ LdIdle
  /\ UiIdle
  /\ BackgroundIdle

SpecInject == InjectInit /\ [][NavNext]_vars

\* C40: under content-refactored.js, whenever a step sets isInitialized the
\* summarize buttons are in the document after that step.
C40_InitializedHasButtons ==
  [][(navImpl = "refactored" /\ ~ctlInitialized /\ ctlInitialized') => navButtons']_vars

(***************************************************************************)
(* Re-injection after a navigation under content-refactored.js: every wait *)
(* for the comments section ends with the section visible.                 *)
(***************************************************************************)

\* A page of content-refactored.js with or without the buttons, the first
\* initialize possibly still waiting, on which the injection may throw.
ReinjectInit ==
  /\ InjectInit
  /\ navImpl = "refactored"

\* The first initialize() of the page begins to wait.
FirstInitialize ==
  /\ navImpl = "refactored"
  /\ ~ctlInitialized
  /\ href = 1
  /\ currentUrl = 1
  /\ initWaiting = 0
  /\ reinitPending = 0
  /\ navAct = "none"
  /\ initWaiting' = 1
  /\ navAct' = "init"
  /\ UNCHANGED <<navImpl, href, currentUrl, throttle, checks, reinitPending, initAttempts,
                 initFails, navPage, navBurst, lastFireTore, navOthers>>

\* waitForCommentsSection resolves with the visible section.
InitResolveVisible == InitResolve /\ (ctlInitialized' \/ initAttempts' # initAttempts)

\* history.pushState to another video, through the wrapper.
NavigateAway == \E u \in Urls : u # href /\ DetectionSignal(u)

ReinjectNext ==
  \/ FirstInitialize
  \/ NavigateAway
  \/ ObserverSignal
  \/ Advance
  \/ ThrottleFire
  \/ ReinitFire
  \/ InitResolveVisible

SpecReinject == ReinjectInit /\ [][ReinjectNext]_vars

\* Time passes and the event loop runs the timers that are due and the
\* continuations that are ready.
SpecReinjectFair ==
  /\ SpecReinject
  /\ WF_vars(Advance)
  /\ WF_vars(ThrottleFire)
  /\ WF_vars(ReinitFire)
  /\ WF_vars(InitResolveVisible)

\* C35: under content-refactored.js, after a teardown the buttons are in the
\* document at some later time, and buttons in the document leave it only by
\* a teardown.
C35_ReinjectedAfterTeardown ==
  /\ (navAct = "fire" /\ lastFireTore) ~> navButtons
  /\ [][(navButtons /\ ~navButtons') => (navAct' = "fire" /\ lastFireTore')]_vars

\* The same on pages where the injection does not throw.
C35_WhereInjectionWorks ==
  /\ (~injectFails /\ navAct = "fire" /\ lastFireTore) ~> navButtons
  /\ [][(navButtons /\ ~navButtons') => (navAct' = "fire" /\ lastFireTore')]_vars


\* ---------------------------------------------------------------------------
\* The race of the request against its timeout: summarizeCommentsHandler and
\* deepSummarizeCommentsHandler of content.js, requestSummaryFromBackground of
\* content-refactored.js.  Both promises stay alive after the race has
\* settled: the reply of the background script and the timer callback still
\* come, and resolve or reject a promise that is settled already.
\* ---------------------------------------------------------------------------
MaxRaces == 2
Races == 1..Len(races)

\* Whether resolve / reject acts on a promise in the given state.
SettlesAgain(state) == TRUE

Settles(state) == state = "pending"

\* The collection settles with a usable list of QuickSlice comments, which
\* is sent, and the handler awaits Promise.race([messagePromise,
\* timeoutPromise]).
StartRace(s) ==
  /\ Len(races) < MaxRaces
  /\ CollectSettles(s)
  /\ inv'[s].pc = "request"
  /\ inv'[s].n = QuickSlice
  /\ races' = Append(races, [state |-> "pending", slot |-> s,
                             reply |-> TRUE, timer |-> TRUE])
  /\ UNCHANGED uiRest

\* What a settled race leaves alone.
NoContinuation ==
  /\ NotAFinish
  /\ UNCHANGED <<inv, boxInfo, boxPresent, quickDisabled, deepDisabled>>

\* The reply of the background script arrives: messagePromise resolves.  If
\* that settles the race the handler goes on after its await.
ReplyArrives(r) ==
  /\ races[r].reply
  /\ races' = [races EXCEPT ![r].reply = FALSE,
                            ![r].state = IF Settles(@) THEN "fulfilled" ELSE @]
  /\ IF Settles(races[r].state)
     THEN \E reply \in Replies :
            /\ reply = "summary" =>
                 CommentCountAccepted(navImpl, inv[races[r].slot].msgLen)
            /\ Finish(races[r].slot, ReplyPath(navImpl, reply))
     ELSE NoContinuation
  /\ UNCHANGED uiRest

\* The timer callback runs: timeoutPromise rejects.  A pending race is
\* rejected when the timer is due, and the handler goes to its catch block.
TimerFires(r) ==
  /\ races[r].timer
  /\ races[r].state = "pending" =>
       inv[races[r].slot].elapsed = RequestTimeoutMs(navImpl, inv[races[r].slot].kind)
  /\ races' = [races EXCEPT ![r].timer = FALSE,
                            ![r].state = IF Settles(@) THEN "rejected" ELSE @]
  /\ IF Settles(races[r].state)
     THEN Finish(races[r].slot, "timeout")
     ELSE NoContinuation
  /\ UNCHANGED uiRest

RaceNext ==
  \/ ClickQuick
  \/ ClickDeep
  \/ \E s \in Slots : ExpandBegin(s)
  \/ \E s \in Slots : ExpandBatches(s)
  \/ \E s \in Slots : ExpandSettle(s)
  \/ \E s \in Slots : StartRace(s)
  \/ \E r \in Races : ReplyArrives(r)
  \/ \E r \in Races : TimerFires(r)
  \/ UiTick

SpecRace == UiInit /\ [][RaceNext]_vars

\* C36: the race of the request and the timer settles exactly once: a race
\* that is fulfilled or rejected stays so, and the arrival of the loser (the
\* reply after a timeout, the timer after a reply) changes neither the box
\* rendered, nor the disabled state of the buttons, nor any handler.
C36_RaceSettlesOnce ==
  [][\A r \in Races :
       races[r].state # "pending" =>
         /\ races'[r].state = races[r].state
         /\ races'[r] # races[r] =>
              UNCHANGED <<inv, boxInfo, boxPresent, quickDisabled, deepDisabled>>]_vars

\* A pending race belongs to a handler that is at its await.
C36_PendingAwaited ==
  \A r \in Races : races[r].state = "pending" => inv[races[r].slot].pc = "request"

\* One race was won by the reply and its timer has fired since, another by
\* the timer and its reply has come since; the timeout error is on display.
C36_Witness ==
  \E r1, r2 \in Races :
    /\ races[r1].state = "fulfilled" /\ ~races[r1].timer
    /\ races[r2].state = "rejected" /\ ~races[r2].reply
    /\ boxInfo.shows = "error" /\ boxInfo.text = "timeout"

\* ---------------------------------------------------------------------------
\* The onMessage listener of the background script on a summarize message:
\* one async function whose body is a try block; its catch replies with the
\* message of the error.
\* ---------------------------------------------------------------------------
bgOthers == <<sanVars, locVars, ldVars, navVars, uiVars, xpVars, clVars,
              histCall, injectFails, races>>

\* catch (e): sendResponse({ error: 'Error: ' + ... })
Caught(replies) == Append(replies, "error")

\* A run that has ended.
Ended(replies, path) == [pc |-> "done", replies |-> replies, path |-> path]

\* A summarize message arrives and the listener runs to its first await:
\* the sender is checked, checkRateLimit counts the request, validateComments
\* goes through the comments and the settings are asked for.
ListenerCalled(m) ==
  /\ msgs[m].pc \in {"free", "done"}
  /\ \/ /\ msgs' = [msgs EXCEPT ![m] = Ended(Caught(<<>>), "invalid sender")]
        /\ UNCHANGED rlVars
     \/ \E tab \in TabIds :
          /\ CheckRateLimit(tab)
          /\ IF ~rlLast'.accepted
             THEN msgs' = [msgs EXCEPT ![m] = Ended(Caught(<<>>), "rate limit")]
             ELSE \E commentsValid \in BOOLEAN :
                    msgs' = [msgs EXCEPT ![m] =
                      IF ~commentsValid THEN Ended(Caught(<<>>), "invalid comments")
                      ELSE [pc |-> "storage", replies |-> <<>>, path |-> "none"]]
  /\ UNCHANGED bgOthers

\* What the race of storage.local.get and its 5 s timer may come to, and
\* what the statements up to the provider call make of it.
StorageOutcomes == {"storage timeout", "no key", "invalid key", "long prompt", "ok"}

\* The branch of the missing key leaves the function after its reply.
FallsThrough(replied) == FALSE

ReturnsAfterReply(replied) == replied

\* The settings arrive or the storage timer fires; the listener runs to the
\* provider call: the missing key is replied to, validateApiKey and the length
\* check of the prompt throw.
StorageSettles(m) ==
  /\ msgs[m].pc = "storage"
  /\ \E o \in StorageOutcomes :
       LET replied == IF o = "no key" THEN <<"error">> ELSE <<>>
           returns == o = "no key" /\ ReturnsAfterReply(TRUE)
           throws == ~returns /\ o # "ok"
       IN  msgs' = [msgs EXCEPT ![m] =
             IF returns \/ throws
             THEN Ended(IF throws THEN Caught(replied) ELSE replied, o)
             ELSE [@ EXCEPT !.pc = "fetch"]]
  /\ UNCHANGED <<rlVars, bgOthers>>

\* What callAIProvider may come to.
ProviderOutcomes == {"success", "empty summary", "provider error", "abort"}

\* callAIProvider settles: a summary that is not empty after sanitizeApiResponse
\* is replied with; an empty one, a rejection and the abort after 30 s are
\* thrown on by the inner catch to the outer one.
ProviderSettles(m) ==
  /\ msgs[m].pc = "fetch"
  /\ \E o \in ProviderOutcomes :
       msgs' = [msgs EXCEPT ![m] =
         Ended(IF o = "success" THEN <<"summary">> ELSE Caught(<<>>), o)]
  /\ UNCHANGED <<rlVars, bgOthers>>

ListenerNext ==
  \/ \E m \in Messages : ListenerCalled(m)
  \/ \E m \in Messages : StorageSettles(m)
  \/ \E m \in Messages : ProviderSettles(m)

SpecListener == RateInit /\ [][ListenerNext]_vars

\* C39: a run of the summarize listener that has ended has called
\* sendResponse exactly once, with { summary } if it succeeded and with
\* { error } on every other path, and a run under way has not called it.
C39_OneResponse ==
  \A m \in Messages :
    /\ msgs[m].pc \in {"storage", "fetch"} => msgs[m].replies = <<>>
    /\ msgs[m].pc = "done" =>
         /\ Len(msgs[m].replies) = 1
         /\ msgs[m].replies[1] = IF msgs[m].path = "success" THEN "summary" ELSE "error"

\* One run was turned down by the rate limit, the other ended for the missing
\* key.
C39_Witness ==
  \E m1, m2 \in Messages :
    /\ msgs[m1].pc = "done" /\ msgs[m1].path = "rate limit"
    /\ msgs[m2].pc = "done" /\ msgs[m2].path = "no key"
====
